---- MODULE Spec2Model ----
(***************************************************************************)
(* Model of the THCF website scraper (scripts/scrape.mjs and               *)
(* scripts/utils/classify-page.mjs).                                       *)
(*                                                                         *)
(* Strings are modelled as sequences of tokens.  A URL string is           *)
(*   [origin token] path tokens [query token] [hash token]                 *)
(* where a path token is "/" , a segment name, or a file extension such as *)
(* ".pdf" (the extension token directly follows the segment it belongs     *)
(* to).  String concatenation is \o, the regular expressions of the source *)
(* are evaluated on the token sequence.                                    *)
(***************************************************************************)
EXTENDS Integers, Sequences, FiniteSets, TLC

VARIABLES
    \* ---- scrape.mjs: command line and persisted files
    RESUME,        \* args.includes('--resume')
    sitemapFile,   \* scraped-data/site-map.json: NoFile or a sequence of entries
    manifestFile,  \* scraped-data/image-manifest.json: NoFile or a set of image URLs
    navFile,       \* scraped-data/nav-structure.json: NoFile or a navigation tree
    store,         \* scraped-data/<dir>/<slug>.json: set of [dir, slug, url] blobs
    \* ---- scrape.mjs: module state
    visited, queue, allUrls, allImages, navStructure,
    \* ---- scrape.mjs: locals of run()
    seenInQueue, count, url, result, sec, pageNum,
    pc,            \* position of run()
    \* ---- environment observed by run()
    response,      \* outcome of the last page.goto of scrapePage
    dom,           \* the links and images of the document it rendered
    found,         \* the N of "Found N pages" logged for the current section, 0 if none
    \* ---- history
    harvested,     \* listing pages of the current section whose links were harvested
    enqLog,        \* every queue.push, in order: the URL, and whether it was
                   \* in visited / in the queue at that moment
    fetchLog,      \* every URL handed to scrapePage, in call order
    waited,        \* milliseconds spent so far in the setTimeout of line 332
    fetchAt,       \* the value of waited at each call of scrapePage
    \* ---- normalizeUrl harness
    nHref, nOut, nOut2, nQueue, nPc,
    \* ---- classifyPage harness
    cUrl, cType, cPc,
    \* ---- prepare-content.mjs: one raw record and what is derived from it
    pKind,         \* the directory the record was read from
    pBody,         \* data.body
    pFields,       \* data.fields
    pParsed,       \* parseScholarshipFields(data.body)
    pOut,          \* the cleaned body
    pOut2,         \* the cleaner applied to the cleaned body
    pRecord,       \* the record the map callback returned
    pPc,
    \* ---- download-images.mjs: files, and the locals of run()
    manifest,      \* scraped-data/image-manifest.json
    mapFile,       \* scraped-data/image-map.json: NoFile or a map
    imageFiles,    \* the names of the files in scraped-data/images
    imageMap, toDownload, completed, failed,
    batchStart,    \* the i of the batch loop
    jobs,          \* the promises of the batch: for each URL its position,
                   \* its finalPath and its counter
    dPc, dRuns,
    \* ---- download-images.mjs: history
    outcome,       \* how the download of each URL of this run ended
    downloads,     \* every download that completed, in every run, in order
    \* ---- upload-to-r2.mjs: files, and the locals of run()
    r2File,        \* scraped-data/image-map-r2.json: NoFile or a map
    entries, r2Map, uploaded, skipped, uFailed,
    entryIdx,      \* the position of the for loop in entries
    uPc, uRuns,
    \* ---- upload-to-r2.mjs: history
    uOutcome       \* how each entry of this run ended

crawlVars == <<RESUME, sitemapFile, manifestFile, navFile, store, visited, queue,
               allUrls, allImages, navStructure, seenInQueue, count, url, result,
               sec, pageNum, pc, response, dom, found, harvested, enqLog,
               fetchLog, waited, fetchAt>>
normVars == <<nHref, nOut, nOut2, nQueue, nPc>>
classVars == <<cUrl, cType, cPc>>
prepVars == <<pKind, pBody, pFields, pParsed, pOut, pOut2, pRecord, pPc>>
downloadVars == <<manifest, mapFile, imageFiles, imageMap, toDownload, completed,
                  failed, batchStart, jobs, dPc, dRuns, outcome, downloads>>
uploadVars == <<r2File, entries, r2Map, uploaded, skipped, uFailed, entryIdx, uPc,
                uRuns, uOutcome>>
xferVars == <<downloadVars, uploadVars>>
vars == <<RESUME, sitemapFile, manifestFile, navFile, store, visited, queue,
          allUrls, allImages, navStructure, seenInQueue, count, url, result,
          sec, pageNum, pc, response, dom, found, harvested, enqLog, fetchLog,
          waited, fetchAt, nHref, nOut, nOut2, nQueue, nPc, cUrl, cType, cPc,
          pKind, pBody, pFields, pParsed, pOut, pOut2, pRecord, pPc,
          xferVars>>

(***************************************************************************)
(* String helpers                                                          *)
(***************************************************************************)
Last(s) == s[Len(s)]
Front(s) == SubSeq(s, 1, Len(s) - 1)
Range(s) == {s[i] : i \in 1..Len(s)}

\* s.replace(/\/$/, ''): removes one trailing slash
StripTrailingSlash(s) ==
    IF s # <<>> /\ Last(s) = "/" THEN Front(s) ELSE s

\* s || d on strings: the empty string is falsy
OrElse(s, d) == IF s = <<>> THEN d ELSE s

(***************************************************************************)
(* URL parsing: new URL(href, BASE_URL)                                    *)
(***************************************************************************)
WWW == "https://www.thcf.org"
APEX == "https://thcf.org"
FOREIGN == "https://example.com"
MALFORMED == "https://["          \* an unterminated IPv6 host: URL() throws

BASE_URL == <<WWW>>

OriginTok == {WWW, APEX, FOREIGN}
QueryTok == {"?page=2", "?page=3"}
HashTok == {"#top"}

HostOf(o) ==
    CASE o = WWW -> "www.thcf.org"
      [] o = APEX -> "thcf.org"
      [] o = FOREIGN -> "example.com"
      [] OTHER -> o

\* the fragment and the query of a URL string, and what precedes them
HasHash(h) == h # <<>> /\ Last(h) \in HashTok
HashPart(h) == IF HasHash(h) THEN <<Last(h)>> ELSE <<>>
BeforeHash(h) == IF HasHash(h) THEN Front(h) ELSE h
HasQuery(g) == g # <<>> /\ Last(g) \in QueryTok
QueryPart(h) == IF HasQuery(BeforeHash(h)) THEN <<Last(BeforeHash(h))>> ELSE <<>>
BeforeQuery(h) ==
    IF HasQuery(BeforeHash(h)) THEN Front(BeforeHash(h)) ELSE BeforeHash(h)

\* leading slashes of a scheme-relative reference ("//host/path") are skipped
RECURSIVE SkipSlashes(_)
SkipSlashes(p) ==
    IF p # <<>> /\ Head(p) = "/" THEN SkipSlashes(Tail(p)) ELSE p

Failure == [ok |-> FALSE]

Parsed(o, host, path, q, h) ==
    [ok |-> TRUE, origin |-> o, hostname |-> host,
     pathname |-> OrElse(path, <<"/">>), search |-> q, hash |-> h]

\* the URL whose scheme, authority and path are p, query q and fragment h
ParseParts(p, q, h) ==
    IF p # <<>> /\ Head(p) = MALFORMED THEN Failure
    ELSE IF p # <<>> /\ Head(p) \in OriginTok
         THEN Parsed(<<Head(p)>>, HostOf(Head(p)), Tail(p), q, h)
    ELSE IF Len(p) >= 2 /\ p[1] = "/" /\ p[2] = "/"
         THEN \* scheme-relative: the next token is the host
              IF SkipSlashes(p) = <<>> THEN Failure
              ELSE Parsed(<<"https:", "/", "/", Head(SkipSlashes(p))>>,
                          Head(SkipSlashes(p)), Tail(SkipSlashes(p)), q, h)
    ELSE IF p # <<>> /\ Head(p) = "/"
         THEN Parsed(BASE_URL, HostOf(WWW), p, q, h)
    ELSE \* path-relative to the base, whose path is "/"
         Parsed(BASE_URL, HostOf(WWW), <<"/">> \o p, q, h)

ParseURL(href) ==
    CHOOSE u \in {ParseParts(p, q, h) : p \in {BeforeQuery(href)},
                                        q \in {QueryPart(href)},
                                        h \in {HashPart(href)}} : TRUE

(***************************************************************************)
(* normalizeUrl                                                            *)
(***************************************************************************)
NULL == <<"null">>

DenyExt == {".pdf", ".PDF", ".xlsx", ".docx", ".zip", ".png", ".jpg", ".JPG",
            ".jpeg", ".gif", ".svg", ".webp", ".mp4", ".mp3"}

\* the extension test without the i flag
IsLowerCaseFileDownload(pathname) ==
    pathname # <<>> /\ Last(pathname) \in DenyExt \ {".PDF", ".JPG"}

\* /\.(pdf|xlsx?|docx?|zip|png|jpg|jpeg|gif|svg|webp|mp4|mp3)$/i.test(pathname)
IsFileDownload(pathname) == pathname # <<>> /\ Last(pathname) \in DenyExt

\* lines 61-68, on the parsed URL u
NormalizeParsed(u) ==
    IF u.hostname # "www.thcf.org" /\ u.hostname # "thcf.org" THEN NULL
    ELSE LET pathname == OrElse(StripTrailingSlash(u.pathname), <<"/">>)
         IN  IF IsFileDownload(pathname) THEN NULL
             ELSE u.origin \o pathname

normalizeUrl(href) ==
    CHOOSE n \in {IF u.ok THEN NormalizeParsed(u) ELSE NULL :
                     u \in {ParseURL(href)}} : TRUE

(***************************************************************************)
(* classify-page.mjs                                                       *)
(***************************************************************************)
\* segment names that begin with another segment name ("newsletter" =~ /^news/)
PrefixPairs == {<<"newsletter", "news">>, <<"staffing", "staff">>}
StartsWith(tok, pre) == tok = pre \/ <<tok, pre>> \in PrefixPairs

\* p begins with the tokens of lit, the last of them as a prefix of its token
HasPrefix(p, lit) ==
    /\ Len(p) >= Len(lit)
    /\ \A i \in 1..(Len(lit) - 1) : p[i] = lit[i]
    /\ StartsWith(p[Len(lit)], lit[Len(lit)])

\* /^\/<dir>\/[^/]+$/
IsItemOf(p, dir) ==
    /\ Len(p) >= 4
    /\ p[1] = "/" /\ p[2] = dir /\ p[3] = "/"
    /\ \A i \in 4..Len(p) : p[i] # "/"

PATTERNS == <<
    [kind |-> "item",   lit |-> <<"news">>, type |-> "news"],
    [kind |-> "prefix", lit |-> <<"/", "about", "/", "news">>, type |-> "news-listing"],
    [kind |-> "item",   lit |-> <<"scholarships">>, type |-> "scholarship"],
    [kind |-> "prefix", lit |-> <<"/", "students", "/", "scholarships", "/",
                                  "scholarship-directory">>,
                        type |-> "scholarship-listing"],
    [kind |-> "prefix", lit |-> <<"/", "students", "/", "scholarships">>, type |-> "page"],
    [kind |-> "prefix", lit |-> <<"/", "students">>, type |-> "page"],
    [kind |-> "item",   lit |-> <<"grants">>, type |-> "grant"],
    [kind |-> "prefix", lit |-> <<"/", "grant-seekers", "/", "past-recipients">>,
                        type |-> "grant-listing"],
    [kind |-> "exact",  lit |-> <<"/", "about", "/", "staff">>, type |-> "staff-listing"],
    [kind |-> "exact",  lit |-> <<"/", "about", "/", "board">>, type |-> "board-listing"] >>

\* pattern.test(pathname)
Matches(pat, p) ==
    CASE pat.kind = "item" -> IsItemOf(p, pat.lit[1])
      [] pat.kind = "prefix" -> HasPrefix(p, pat.lit)
      [] OTHER -> p = pat.lit

\* the loop of line 26 returning the type of the last rule that matches
classifyLastMatch(u) ==
    LET pathname == OrElse(StripTrailingSlash(ParseURL(u).pathname), <<"/">>)
        hits == {i \in 1..Len(PATTERNS) : Matches(PATTERNS[i], pathname)}
    IN  IF hits = {} THEN "page"
        ELSE PATTERNS[CHOOSE i \in hits : \A j \in hits : i >= j].type

classifyPage(u) ==
    LET pathname == OrElse(StripTrailingSlash(ParseURL(u).pathname), <<"/">>)
        hits == {i \in 1..Len(PATTERNS) : Matches(PATTERNS[i], pathname)}
    IN  IF hits = {} THEN "page"
        ELSE PATTERNS[CHOOSE i \in hits : \A j \in hits : i <= j].type

getOutputDir(type) ==
    CASE type = "news" -> "news"
      [] type = "scholarship" -> "scholarships"
      [] type = "grant" -> "grants"
      [] OTHER -> "pages"

(***************************************************************************)
(* slugFromUrl                                                             *)
(***************************************************************************)
\* s.replace(/\//g, '--')
DashSlashes(s) == [i \in 1..Len(s) |-> IF s[i] = "/" THEN "--" ELSE s[i]]

\* s.replace(/^\//, '')
StripLeadingSlash(s) == IF s # <<>> /\ Head(s) = "/" THEN Tail(s) ELSE s

slugFromUrl(u) ==
    LET pathname == OrElse(StripTrailingSlash(ParseURL(u).pathname), <<"index">>)
    IN  OrElse(DashSlashes(StripLeadingSlash(pathname)), <<"index">>)

(***************************************************************************)
(* Bounds of the model and the site it crawls                              *)
(***************************************************************************)
MAX_PAGES == 3        \* --max-pages N
MaxPrior == 1         \* entries of the site-map a resumed run starts from
PAGE_LIMIT == 20      \* while (pageNum <= 20)
DELAY_MS == 1500

\* hrefs the pages of the site carry
HrefDonors == <<"/", "donors">>
HrefArticle == <<"/", "news", "/", "gala-recap", "/">>
HrefArticleTop == <<WWW, "/", "news", "/", "gala-recap", "#top">>
HrefApexDonors == <<APEX, "/", "donors">>
HrefReport == <<"/", "files", "/", "report", ".pdf">>
HrefForeign == <<FOREIGN, "/">>
HrefNewsPage2 == <<"/", "about", "/", "news", "?page=2">>
HrefEmpty == <<>>

\* the first and the seventeenth entry of seedUrls; the other seventeen seeds
\* go through the same loop
seedUrls == << <<"/">>, <<"/", "about", "/", "news">> >>

paginatedSections == <<
    [url |-> BASE_URL \o <<"/", "about", "/", "news">>, label |-> "News"],
    [url |-> BASE_URL \o <<"/", "students", "/", "scholarships", "/",
                           "scholarship-directory">>,
     label |-> "Scholarship Directory"] >>

\* what extractPageLinks can return for a rendered page
LinkLists == { <<>>,
               <<HrefArticle, HrefDonors, HrefReport, HrefArticleTop>>,
               <<HrefApexDonors, HrefForeign, HrefNewsPage2, HrefDonors>> }

\* what extractPageImages can return
ImageLists == { <<>>, <<"logo.png", "hero.jpg">> }

\* what extractNavigation can return
NavTrees == { <<>>,
              << [href |-> HrefDonors, children |-> <<HrefArticleTop, HrefForeign>>],
                 [href |-> HrefEmpty, children |-> <<HrefApexDonors>>] >> }

\* the URLs a site-map of an earlier run can list
SiteUrls == { <<WWW, "/">>, <<WWW, "/", "about", "/", "news">>,
              <<WWW, "/", "donors">>, <<WWW, "/", "news", "/", "gala-recap">>,
              <<APEX, "/", "donors">> }

\* a file of scraped-data/: absent, or present with its JSON content
NoFile == [exists |-> FALSE]
File(content) == [exists |-> TRUE, content |-> content]
NoResult == [ok |-> FALSE]
NoDocument == [links |-> <<>>, images |-> <<>>]

RECURSIVE SetToSeq(_)
SetToSeq(S) ==
    IF S = {} THEN <<>>
    ELSE LET x == CHOOSE y \in S : TRUE IN <<x>> \o SetToSeq(S \ {x})

PriorSitemaps ==
    {File(SetToSeq(S)) : S \in {T \in SUBSET SiteUrls : Cardinality(T) <= MaxPrior}}

(***************************************************************************)
(* run(): the enqueue loops                                                *)
(***************************************************************************)
\* One iteration of an enqueue loop on the frontier f = [queue, seen, log]:
\*   const n = normalizeUrl(link);
\*   if (n && [!visited.has(n) &&] !seenInQueue.has(n)) { queue.push(n); seenInQueue.add(n); }
\* checkVisited tells whether the loop has the !visited.has(n) test.
\* the push without the !seenInQueue.has(n) test
PushUnlessVisited(f, n, vis, checkVisited) ==
    IF n # NULL /\ (checkVisited => n \notin vis)
    THEN [queue |-> Append(f.queue, n),
          seen |-> f.seen \cup {n},
          log |-> Append(f.log, [url |-> n, inVisited |-> n \in vis,
                                 inQueue |-> n \in Range(f.queue)])]
    ELSE f

PushIfNew(f, n, vis, checkVisited) ==
    IF n # NULL /\ (checkVisited => n \notin vis) /\ n \notin f.seen
    THEN [queue |-> Append(f.queue, n),
          seen |-> f.seen \cup {n},
          log |-> Append(f.log, [url |-> n, inVisited |-> n \in vis,
                                 inQueue |-> n \in Range(f.queue)])]
    ELSE f

OfferOne(f, link, vis, checkVisited) ==
    CHOOSE g \in {PushIfNew(f, n, vis, checkVisited) : n \in {normalizeUrl(link)}} : TRUE

\* for (const link of links) { ... }, from the k-th link on
RECURSIVE OfferFrom(_, _, _, _, _)
OfferFrom(f, links, k, vis, checkVisited) ==
    IF k > Len(links) THEN f
    ELSE CHOOSE r \in {OfferFrom(g, links, k + 1, vis, checkVisited) :
                           g \in {OfferOne(f, links[k], vis, checkVisited)}} : TRUE

Offer(links, q, seen, vis, checkVisited, log) ==
    OfferFrom([queue |-> q, seen |-> seen, log |-> log], links, 1, vis, checkVisited)

\* the hrefs of a navigation tree in the order run() visits them
RECURSIVE NavHrefs(_)
NavHrefs(nav) ==
    IF nav = <<>> THEN <<>>
    ELSE <<Head(nav).href>> \o Head(nav).children \o NavHrefs(Tail(nav))

SeedGate == TRUE        \* line 223 tests !visited.has(full)
NavGate == TRUE         \* lines 237, 240 test !visited.has(href)
PaginationGate == FALSE \* lines 262, 283 test !seenInQueue.has(n) only
LinkGate == TRUE        \* line 318 tests !visited.has(normalized)

(***************************************************************************)
(* The crawl: Init and the steps of run()                                  *)
(***************************************************************************)
NormIdle == nHref = <<>> /\ nOut = NULL /\ nOut2 = NULL /\ nQueue = <<>> /\ nPc = "off"
ClassIdle == cUrl = <<>> /\ cType = "" /\ cPc = "off"
PrepIdle ==
    /\ pKind = "" /\ pBody = <<>> /\ pFields = <<>> /\ pParsed = <<>>
    /\ pOut = <<>> /\ pOut2 = <<>> /\ pRecord = <<>> /\ pPc = "off"
UploadIdle ==
    /\ r2File = NoFile /\ entries = <<>> /\ r2Map = <<>>
    /\ uploaded = 0 /\ skipped = 0 /\ uFailed = 0 /\ entryIdx = 0
    /\ uPc = "off" /\ uRuns = 0 /\ uOutcome = <<>>
XferIdle ==
    /\ manifest = <<>> /\ mapFile = NoFile /\ imageFiles = {}
    /\ imageMap = <<>> /\ toDownload = <<>> /\ completed = 0 /\ failed = 0
    /\ batchStart = 0 /\ jobs = <<>> /\ dPc = "off" /\ dRuns = 0
    /\ outcome = <<>> /\ downloads = <<>>
    /\ UploadIdle

Init ==
    /\ RESUME \in BOOLEAN
    /\ sitemapFile \in {NoFile} \cup PriorSitemaps
    /\ manifestFile = NoFile /\ navFile = NoFile /\ store = {}
    /\ visited = {} /\ queue = <<>> /\ allUrls = <<>> /\ allImages = {}
    /\ navStructure = <<>>
    /\ seenInQueue = {} /\ count = 0 /\ url = NULL /\ result = NoResult
    /\ sec = 1 /\ pageNum = 0
    /\ pc = "setup"
    /\ response = "none" /\ dom = NoDocument /\ found = 0 /\ harvested = 0
    /\ enqLog = <<>> /\ fetchLog = <<>>
    /\ waited = 0 /\ fetchAt = <<>>
    /\ NormIdle /\ ClassIdle /\ PrepIdle /\ XferIdle

\* setup(), lines 40-56
Setup ==
    /\ pc = "setup"
    /\ visited' = IF RESUME /\ sitemapFile.exists THEN Range(sitemapFile.content)
                  ELSE visited
    /\ pc' = "seed"
    /\ UNCHANGED <<normVars, classVars, prepVars, xferVars, waited, fetchAt, RESUME, sitemapFile, manifestFile, navFile, store, queue, allUrls,
                   allImages, navStructure, seenInQueue, count, url, result, sec,
                   pageNum, response, dom, found, harvested, enqLog, fetchLog>>

\* lines 221-227
SeedQueue ==
    /\ pc = "seed"
    /\ LET r == Offer(seedUrls, queue, seenInQueue, visited, SeedGate, enqLog)
       IN  queue' = r.queue /\ seenInQueue' = r.seen /\ enqLog' = r.log
    /\ pc' = "nav"
    /\ UNCHANGED <<normVars, classVars, prepVars, xferVars, waited, fetchAt, RESUME, sitemapFile, manifestFile, navFile, store, visited, allUrls,
                   allImages, navStructure, count, url, result, sec, pageNum,
                   response, dom, found, harvested, fetchLog>>

\* lines 231-242, the home page loads
ExtractNavigation ==
    /\ pc = "nav"
    /\ \E nav \in NavTrees :
         /\ navStructure' = nav
         /\ LET r == Offer(NavHrefs(nav), queue, seenInQueue, visited, NavGate, enqLog)
            IN  queue' = r.queue /\ seenInQueue' = r.seen /\ enqLog' = r.log
    /\ pc' = "section"
    /\ UNCHANGED <<normVars, classVars, prepVars, xferVars, waited, fetchAt, RESUME, sitemapFile, manifestFile, navFile, store, visited, allUrls,
                   allImages, count, url, result, sec, pageNum, response, dom, found,
                   harvested, fetchLog>>

\* line 231 throws: run() rejects and the process exits with status 1 (line 364)
NavigationFails ==
    /\ pc = "nav"
    /\ pc' = "fatal"
    /\ UNCHANGED <<normVars, classVars, prepVars, xferVars, waited, fetchAt, RESUME, sitemapFile, manifestFile, navFile, store, visited, queue,
                   allUrls, allImages, navStructure, seenInQueue, count, url, result,
                   sec, pageNum, response, dom, found, harvested, enqLog, fetchLog>>

\* the for loop over paginatedSections is over (line 291), the crawl starts
NextSection == IF sec < Len(paginatedSections) THEN "section" ELSE "crawl"

\* lines 253-263: the listing page loads and its page 1 links are harvested
OpenSection ==
    /\ pc = "section"
    /\ \E links \in LinkLists :
         LET r == Offer(links, queue, seenInQueue, visited, PaginationGate, enqLog)
         IN  queue' = r.queue /\ seenInQueue' = r.seen /\ enqLog' = r.log
    /\ pageNum' = 2
    /\ found' = 0
    /\ harvested' = 1
    /\ pc' = "paginate"
    /\ UNCHANGED <<normVars, classVars, prepVars, xferVars, waited, fetchAt, RESUME, sitemapFile, manifestFile, navFile, store, visited, allUrls,
                   allImages, navStructure, count, url, result, sec, response, dom,
                   fetchLog>>

\* line 255 throws: caught at line 288, on to the next section
OpenSectionFails ==
    /\ pc = "section"
    /\ found' = 0
    /\ harvested' = 0
    /\ pageNum' = 0
    /\ sec' = IF sec < Len(paginatedSections) THEN sec + 1 ELSE sec
    /\ pc' = NextSection
    /\ UNCHANGED <<normVars, classVars, prepVars, xferVars, waited, fetchAt, RESUME, sitemapFile, manifestFile, navFile, store, visited, queue,
                   allUrls, allImages, navStructure, seenInQueue, count, url, result,
                   response, dom, enqLog, fetchLog>>

\* the page total logged as pageNum instead of pageNum - 1
ReportedPageNum(n) == n

\* the page total logged at line 271
ReportedPages(n) == n - 1

\* lines 267-273: no control for page pageNum
ControlAbsent ==
    /\ pc = "paginate"
    /\ pageNum <= PAGE_LIMIT
    /\ found' = ReportedPages(pageNum)
    /\ pc' = "reported"
    /\ UNCHANGED <<normVars, classVars, prepVars, xferVars, waited, fetchAt, RESUME, sitemapFile, manifestFile, navFile, store, visited, queue,
                   allUrls, allImages, navStructure, seenInQueue, count, url, result,
                   sec, pageNum, response, dom, harvested, enqLog, fetchLog>>

\* lines 275-286: the control is clicked and the swapped-in links are harvested
ControlClicked ==
    /\ pc = "paginate"
    /\ pageNum <= PAGE_LIMIT
    /\ \E links \in LinkLists :
         LET r == Offer(links, queue, seenInQueue, visited, PaginationGate, enqLog)
         IN  queue' = r.queue /\ seenInQueue' = r.seen /\ enqLog' = r.log
    /\ harvested' = harvested + 1
    /\ pageNum' = pageNum + 1
    /\ UNCHANGED <<normVars, classVars, prepVars, xferVars, waited, fetchAt, RESUME, sitemapFile, manifestFile, navFile, store, visited, allUrls,
                   allImages, navStructure, count, url, result, sec, pc, response, dom,
                   found, fetchLog>>

\* page.$ or btn.click throws (lines 269, 275): caught at line 288
ControlFails ==
    /\ pc = "paginate"
    /\ pageNum <= PAGE_LIMIT
    /\ pc' = "failed"
    /\ UNCHANGED <<normVars, classVars, prepVars, xferVars, waited, fetchAt, RESUME, sitemapFile, manifestFile, navFile, store, visited, queue,
                   allUrls, allImages, navStructure, seenInQueue, count, url, result,
                   sec, pageNum, response, dom, found, harvested, enqLog, fetchLog>>

\* the end of one iteration of the for loop of line 252: after the break of
\* line 272, the catch of line 288, or pageNum > 20
EndSection ==
    /\ \/ pc \in {"reported", "failed"}
       \/ pc = "paginate" /\ pageNum > PAGE_LIMIT
    /\ sec' = IF sec < Len(paginatedSections) THEN sec + 1 ELSE sec
    /\ pc' = NextSection
    /\ pageNum' = 0 /\ found' = 0 /\ harvested' = 0   \* the iteration's scope ends
    /\ UNCHANGED <<normVars, classVars, prepVars, xferVars, waited, fetchAt, RESUME, sitemapFile, manifestFile, navFile, store, visited, queue,
                   allUrls, allImages, navStructure, seenInQueue, count, url, result,
                   response, dom, enqLog, fetchLog>>

(***************************************************************************)
(* run(): the crawl loop, lines 295-333                                    *)
(***************************************************************************)
\* the while condition with count <= MAX_PAGES
LoopConditionInclusive == Len(queue) > 0 /\ count <= MAX_PAGES

\* the condition of the while of line 297
LoopCondition == Len(queue) > 0 /\ count < MAX_PAGES

\* queue.pop() in place of queue.shift()
Pop(q) == [item |-> Last(q), rest |-> Front(q)]

\* queue.shift()
Shift(q) == [item |-> Head(q), rest |-> Tail(q)]

\* the loop without the test of line 299
NeverVisited(u, vis) == FALSE

\* the loop without line 300
LeaveUnvisited(vis, u) == vis

\* line 299: if (visited.has(url)) continue
AlreadyVisited(u, vis) == u \in vis

\* line 300: visited.add(url)
MarkVisited(vis, u) == vis \cup {u}

\* lines 298-299: the dequeued URL is in visited already
DequeueVisited ==
    /\ pc = "crawl"
    /\ LoopCondition
    /\ AlreadyVisited(Shift(queue).item, visited)
    /\ url' = Shift(queue).item
    /\ queue' = Shift(queue).rest
    /\ UNCHANGED <<normVars, classVars, prepVars, xferVars, waited, fetchAt, RESUME, sitemapFile, manifestFile, navFile, store, visited, allUrls,
                   allImages, navStructure, seenInQueue, count, result, sec, pageNum,
                   pc, response, dom, found, harvested, enqLog, fetchLog>>

\* lines 298-304
Dequeue ==
    /\ pc = "crawl"
    /\ LoopCondition
    /\ ~AlreadyVisited(Shift(queue).item, visited)
    /\ url' = Shift(queue).item
    /\ queue' = Shift(queue).rest
    /\ visited' = MarkVisited(visited, Shift(queue).item)
    /\ count' = count + 1
    /\ pc' = "scrape"
    /\ UNCHANGED <<normVars, classVars, prepVars, xferVars, waited, fetchAt, RESUME, sitemapFile, manifestFile, navFile, store, allUrls,
                   allImages, navStructure, seenInQueue, result, sec, pageNum,
                   response, dom, found, harvested, enqLog, fetchLog>>

\* what page.goto and the extraction of scrapePage can do: a response with
\* status < 400, one with status >= 400, no response, page.goto throwing, and
\* one of the page.evaluate calls of lines 151-164 throwing
Responses == {"ok", "http-error", "no-response", "goto-throws", "extract-throws"}

\* the responses that come with a rendered document
Rendered == {"ok", "http-error", "extract-throws"}

\* scrapePage without the status test of line 141
ScrapeAnyStatus(u, resp, doc) ==
    IF resp \in {"ok", "http-error"}
    THEN [ok |-> TRUE, url |-> u, type |-> classifyPage(u), links |-> doc.links,
          images |-> doc.images]
    ELSE NoResult

\* scrapePage's return value, lines 139-179
ScrapeResult(u, resp, doc) ==
    IF resp = "ok"
    THEN [ok |-> TRUE, url |-> u, type |-> classifyPage(u), links |-> doc.links,
          images |-> doc.images]
    ELSE NoResult

\* line 165, reached when nothing returned or threw before it
ImagesAdded(resp, doc) == IF resp = "ok" THEN Range(doc.images) ELSE {}

\* line 306: scrapePage(page, url)
ScrapePage ==
    /\ pc = "scrape"
    /\ fetchLog' = Append(fetchLog, url)
    /\ fetchAt' = Append(fetchAt, waited)
    /\ \E resp \in Responses, links \in LinkLists, images \in ImageLists :
         /\ resp \notin Rendered => links = <<>> /\ images = <<>>
         /\ response' = resp
         /\ dom' = [links |-> links, images |-> images]
         /\ result' = ScrapeResult(url, resp, [links |-> links, images |-> images])
         /\ allImages' = allImages \cup
                         ImagesAdded(resp, [links |-> links, images |-> images])
    /\ pc' = "save"
    /\ UNCHANGED <<normVars, classVars, prepVars, xferVars, waited, RESUME, sitemapFile, manifestFile, navFile, store, visited, queue,
                   allUrls, navStructure, seenInQueue, count, url, sec, pageNum,
                   found, harvested, enqLog>>

\* fs.writeJson(path.join(OUTPUT_DIR, dir, slug + '.json'), record)
WriteBlob(st, dir, slug, u) ==
    {b \in st : ~(b.dir = dir /\ b.slug = slug)} \cup
    {[dir |-> dir, slug |-> slug, url |-> u]}

\* lines 308-329
SaveResult ==
    /\ pc = "save"
    /\ IF result.ok
       THEN /\ store' = WriteBlob(store, getOutputDir(result.type), slugFromUrl(url),
                                  result.url)
            /\ LET r == Offer(result.links, queue, seenInQueue, visited, LinkGate, enqLog)
               IN  queue' = r.queue /\ seenInQueue' = r.seen /\ enqLog' = r.log
            /\ allUrls' = Append(allUrls, [url |-> result.url, type |-> result.type])
       ELSE UNCHANGED <<store, queue, seenInQueue, enqLog, allUrls>>
    /\ pc' = "delay"
    /\ UNCHANGED <<normVars, classVars, prepVars, xferVars, waited, fetchAt, RESUME, sitemapFile, manifestFile, navFile, visited, allImages,
                   navStructure, count, url, result, sec, pageNum, response, dom, found,
                   harvested, fetchLog>>

\* the delay taken only after a page that was saved
DelayAfterSave(t, res) == IF res.ok THEN t + DELAY_MS ELSE t

\* line 332: await new Promise(resolve => setTimeout(resolve, DELAY_MS)),
\* whatever scrapePage returned
Delay(t, res) == t + DELAY_MS

\* line 332
RateLimit ==
    /\ pc = "delay"
    /\ waited' = Delay(waited, result)
    /\ pc' = "crawl"
    /\ UNCHANGED <<normVars, classVars, prepVars, xferVars, fetchAt, RESUME, sitemapFile, manifestFile, navFile, store, visited, queue,
                   allUrls, allImages, navStructure, seenInQueue, count, url, result,
                   sec, pageNum, response, dom, found, harvested, enqLog, fetchLog>>

\* lines 336-346: the loop is over, the site map, the navigation tree and the
\* image manifest are written
Finish ==
    /\ pc = "crawl"
    /\ ~LoopCondition
    /\ sitemapFile' = File([i \in 1..Len(allUrls) |-> allUrls[i].url])
    /\ navFile' = File(navStructure)
    /\ manifestFile' = File(allImages)
    /\ pc' = "done"
    /\ UNCHANGED <<normVars, classVars, prepVars, xferVars, waited, fetchAt, RESUME, store, visited, queue, allUrls, allImages, navStructure,
                   seenInQueue, count, url, result, sec, pageNum, response, dom, found,
                   harvested, enqLog, fetchLog>>

Next ==
    \/ Setup \/ SeedQueue \/ ExtractNavigation \/ NavigationFails
    \/ OpenSection \/ OpenSectionFails
    \/ ControlAbsent \/ ControlClicked \/ ControlFails \/ EndSection
    \/ DequeueVisited \/ Dequeue \/ ScrapePage \/ SaveResult \/ RateLimit \/ Finish

Spec == Init /\ [][Next]_vars

(***************************************************************************)
(* normalizeUrl on its own: every href of a bounded grammar is normalized, *)
(* and what it yields is normalized again                                  *)
(***************************************************************************)
MaxSlashes == 2       \* trailing slashes an href carries

Slashes(n) == [i \in 1..n |-> "/"]

NormOrigins == {<<>>, <<WWW>>, <<APEX>>, <<FOREIGN>>, <<MALFORMED>>}
NormStems == { <<>>,
               <<"/", "about">>,
               <<"/", "about", "/", "news">>,
               <<"/", "files", "/", "report", ".pdf">>,
               <<"/", "files", "/", "photo", ".JPG">>,
               <<"/", "files", "/", "notes", ".html">> }
NormPaths == {stem \o Slashes(n) : stem \in NormStems, n \in 0..MaxSlashes}
             \cup {<<"donors">>, <<"donors", "/">>}
NormQueries == {<<>>} \cup {<<q>> : q \in QueryTok}
NormHashes == {<<>>} \cup {<<h>> : h \in HashTok}

\* an origin is followed by nothing or by an absolute path
NormHrefs ==
    {o \o p \o q \o h : o \in NormOrigins,
                        p \in {x \in NormPaths : x = <<>> \/ Head(x) = "/"},
                        q \in NormQueries, h \in NormHashes}
    \cup {p \o q \o h : p \in NormPaths, q \in NormQueries, h \in NormHashes}

CrawlIdle ==
    /\ RESUME = FALSE
    /\ sitemapFile = NoFile /\ manifestFile = NoFile /\ navFile = NoFile /\ store = {}
    /\ visited = {} /\ queue = <<>> /\ allUrls = <<>> /\ allImages = {}
    /\ navStructure = <<>>
    /\ seenInQueue = {} /\ count = 0 /\ url = NULL /\ result = NoResult
    /\ sec = 1 /\ pageNum = 0
    /\ pc = "off"
    /\ response = "none" /\ dom = NoDocument /\ found = 0 /\ harvested = 0
    /\ enqLog = <<>> /\ fetchLog = <<>>
    /\ waited = 0 /\ fetchAt = <<>>

InitNorm ==
    /\ CrawlIdle /\ ClassIdle /\ PrepIdle /\ XferIdle
    /\ nHref \in NormHrefs
    /\ nOut = NULL /\ nOut2 = NULL /\ nQueue = <<>>
    /\ nPc = "href"

\* normalizeUrl(href)
Normalize ==
    /\ nPc = "href"
    /\ nOut' = normalizeUrl(nHref)
    /\ nPc' = "once"
    /\ UNCHANGED <<crawlVars, classVars, prepVars, xferVars, nHref, nOut2, nQueue>>

\* normalizeUrl of a URL normalizeUrl returned
NormalizeAgain ==
    /\ nPc = "once"
    /\ nOut # NULL
    /\ nOut2' = normalizeUrl(nOut)
    /\ nPc' = "twice"
    /\ UNCHANGED <<crawlVars, classVars, prepVars, xferVars, nHref, nOut, nQueue>>

\* one iteration of the link loop of lines 316-322 on the href, the queue,
\* seenInQueue and visited being empty
OfferHref ==
    /\ nPc = "once"
    /\ nQueue' = Offer(<<nHref>>, <<>>, {}, {}, LinkGate, <<>>).queue
    /\ nPc' = "offered"
    /\ UNCHANGED <<crawlVars, classVars, prepVars, xferVars, nHref, nOut, nOut2>>

NextNorm == Normalize \/ NormalizeAgain \/ OfferHref

SpecNorm == InitNorm /\ [][NextNorm]_vars

(***************************************************************************)
(* classifyPage on its own: every URL of a bounded grammar is classified   *)
(***************************************************************************)
ClassFirst == {"news", "about", "students", "scholarships", "grants",
               "grant-seekers", "newsletter", "donors"}
ClassSecond == {"news", "newsletter", "staff", "staffing", "board", "scholarships",
                "past-recipients", "my-article"}
ClassThird == {"scholarship-directory", "my-article"}

ClassPaths ==
    {<<"/">>}
    \cup {<<"/", a>> : a \in ClassFirst}
    \cup {<<"/", a, "/", b>> : a \in ClassFirst, b \in ClassSecond}
    \cup {<<"/", a, "/", b, "/", c>> : a \in {"news", "students", "about"},
                                        b \in ClassSecond, c \in ClassThird}

\* the URLs run() and scrapePage() pass: an origin and a path, with or
\* without a trailing slash
ClassUrls ==
    {<<o>> \o path \o s : o \in {WWW, APEX}, path \in ClassPaths,
                           s \in {<<>>, <<"/">>}}

InitClass ==
    /\ CrawlIdle /\ NormIdle /\ PrepIdle /\ XferIdle
    /\ cUrl \in ClassUrls
    /\ cType = ""
    /\ cPc = "url"

\* classifyPage(url)
Classify ==
    /\ cPc = "url"
    /\ cType' = classifyPage(cUrl)
    /\ cPc' = "classified"
    /\ UNCHANGED <<crawlVars, normVars, prepVars, xferVars, cUrl>>

\* getOutputDir(type) has a directory for the type; nothing is kept of it
Partition ==
    /\ cPc = "classified"
    /\ getOutputDir(cType) \in {"news", "scholarships", "grants", "pages"}
    /\ cPc' = "partitioned"
    /\ UNCHANGED <<crawlVars, normVars, prepVars, xferVars, cUrl, cType>>

NextClass == Classify \/ Partition

SpecClass == InitClass /\ [][NextClass]_vars

(***************************************************************************)
(* prepare-content.mjs                                                     *)
(*                                                                         *)
(* An HTML string is modelled as the sequence of the nodes it is written   *)
(* with: a text node carries a sequence of text tokens (" " is white       *)
(* space), an element carries its tag, its class attribute and the nodes   *)
(* written between its tags.  cheerio.load parses such a string into a     *)
(* document with a head and a body (parse5), $.html() writes the document  *)
(* back with its html, head and body elements, and $(...).html() writes    *)
(* the inside of the first selected element.                               *)
(***************************************************************************)
Text(toks) == [tag |-> "#text", class |-> "", kids |-> <<>>, text |-> toks]
Elem(tag, class, kids) == [tag |-> tag, class |-> class, kids |-> kids, text |-> <<>>]
IsElement(n) == n.tag # "#text"

\* String.prototype.trim on a text
RECURSIVE TrimStart(_)
TrimStart(s) == IF s # <<>> /\ Head(s) = " " THEN TrimStart(Tail(s)) ELSE s

RECURSIVE TrimEnd(_)
TrimEnd(s) == IF s # <<>> /\ Last(s) = " " THEN TrimEnd(Front(s)) ELSE s

Trim(s) == TrimEnd(TrimStart(s))

\* String.prototype.trim on an HTML string
RECURSIVE TrimStartHtml(_)
TrimStartHtml(h) ==
    IF h = <<>> \/ IsElement(Head(h)) THEN h
    ELSE IF TrimStart(Head(h).text) = <<>> THEN TrimStartHtml(Tail(h))
    ELSE <<Text(TrimStart(Head(h).text))>> \o Tail(h)

RECURSIVE TrimEndHtml(_)
TrimEndHtml(h) ==
    IF h = <<>> \/ IsElement(Last(h)) THEN h
    ELSE IF TrimEnd(Last(h).text) = <<>> THEN TrimEndHtml(Front(h))
    ELSE Front(h) \o <<Text(TrimEnd(Last(h).text))>>

TrimHtml(h) == TrimEndHtml(TrimStartHtml(h))

\* the nodes inside the first node of the given tag
ChildrenOf(nodes, tag) ==
    CHOOSE k \in {IF hit = <<>> THEN <<>> ELSE Head(hit).kids :
                     hit \in {SelectSeq(nodes, LAMBDA n : n.tag = tag)}} : TRUE

\* the script elements a string starts with: parse5 puts them in the head
LeadingScripts(s) ==
    Cardinality({n \in 1..Len(s) : \A i \in 1..n : s[i].tag = "script"})

\* the document parse5 builds from the string s, white space before the first
\* element or text dropped
LoadTrimmed(s) ==
    IF s # <<>> /\ Head(s).tag = "html"
    THEN [head |-> ChildrenOf(Head(s).kids, "head"),
          body |-> ChildrenOf(Head(s).kids, "body") \o Tail(s)]
    ELSE [head |-> SubSeq(s, 1, LeadingScripts(s)),
          body |-> SubSeq(s, LeadingScripts(s) + 1, Len(s))]

\* cheerio.load(s)
Load(s) == CHOOSE d \in {LoadTrimmed(h) : h \in {TrimStartHtml(s)}} : TRUE

\* $.html(): the whole document
RootHtml(doc) ==
    <<Elem("html", "", <<Elem("head", "", doc.head), Elem("body", "", doc.body)>>)>>

\* a simple selector: a tag ("" for any) and the class values it accepts
\* ({} for any); a selector is a chain of simple selectors joined by the
\* descendant combinator
Sel(tag, classes) == [tag |-> tag, classes |-> classes]

MatchesSimple(n, s) ==
    /\ IsElement(n)
    /\ s.tag = "" \/ n.tag = s.tag
    /\ s.classes = {} \/ n.class \in s.classes

\* the ancestors anc (outermost first) match the simple selectors of chain in
\* order
RECURSIVE WithinChain(_, _)
WithinChain(anc, chain) ==
    IF chain = <<>> THEN TRUE
    ELSE IF anc = <<>> THEN FALSE
    ELSE IF MatchesSimple(Head(anc), Head(chain))
         THEN WithinChain(Tail(anc), Tail(chain))
    ELSE WithinChain(Tail(anc), chain)

MatchesChain(n, anc, chain) ==
    MatchesSimple(n, Last(chain)) /\ WithinChain(anc, Front(chain))

\* $(selector).remove() for each selector of chains, on the nodes below the
\* ancestors anc: an element that matches goes with everything inside it
RECURSIVE RemoveFrom(_, _, _)
RemoveFrom(nodes, chains, anc) ==
    CHOOSE r \in
        {[i \in 1..Len(kept) |->
             [kept[i] EXCEPT !.kids =
                 RemoveFrom(kept[i].kids, chains,
                            Append(anc, Elem(kept[i].tag, kept[i].class, <<>>)))]] :
             kept \in {SelectSeq(nodes,
                                 LAMBDA n : ~\E c \in chains : MatchesChain(n, anc, c))}} :
        TRUE

RemoveAll(doc, chains) ==
    [head |-> RemoveFrom(doc.head, chains, <<>>),
     body |-> RemoveFrom(doc.body, chains, <<>>)]

\* the elements a simple selector selects, in document order
RECURSIVE FindAll(_, _)
FindAll(nodes, s) ==
    IF nodes = <<>> THEN <<>>
    ELSE (IF MatchesSimple(Head(nodes), s) THEN <<Head(nodes)>> ELSE <<>>)
         \o FindAll(Head(nodes).kids, s) \o FindAll(Tail(nodes), s)

Select(doc, s) == FindAll(doc.head \o doc.body, s)

\* selection.html(): the inside of the first selected element; null for an
\* empty selection, which every caller treats as it treats ''
InnerHtml(selection) == IF selection = <<>> THEN <<>> ELSE Head(selection).kids

CtctClasses == {"ctct-inline-form"}      \* [class*="ctct"]
MainContent == Sel("section", {"main-content"})
SubContent == Sel("section", {"sub-content"})

\* lines 146-159
NewsChrome ==
    { <<Sel("section", {"article-info"})>>, <<Sel("section", {"related"})>>,
      <<Sel("section", {"text-banner"})>>, <<Sel("div", {"share"})>>,
      <<Sel("", {"a2a_kit"})>>, <<Sel("script", {})>>, <<Sel("", CtctClasses)>> }

\* lines 195-202
ScholarshipChrome ==
    { <<Sel("section", {"banner"})>>, <<Sel("section", {"side-nav"})>>,
      <<Sel("div", {"share"})>>, <<Sel("", {"a2a_kit"})>>, <<Sel("script", {})>>,
      <<Sel("", CtctClasses)>> }

\* lines 224-234
PageChrome ==
    { <<Sel("section", {"banner"})>>, <<Sel("section", {"side-nav"})>>,
      <<Sel("section", {"article-info"})>>, <<Sel("section", {"related"})>>,
      <<Sel("section", {"sub-content"}), Sel("", {"side-block"}), Sel("", {"sub-nav"})>>,
      <<Sel("div", {"share"})>>, <<Sel("", {"a2a_kit"})>>, <<Sel("script", {})>>,
      <<Sel("", CtctClasses)>> }

\* p:first-child > img.thumbnail
IsThumbnailPara(n) ==
    n.tag = "p" /\ \E i \in 1..Len(n.kids) : MatchesSimple(n.kids[i], Sel("img", {"thumbnail"}))

\* the position of the first element among nodes, 0 if there is none
FirstElement(nodes) ==
    IF \A i \in 1..Len(nodes) : ~IsElement(nodes[i]) THEN 0
    ELSE CHOOSE i \in 1..Len(nodes) :
             IsElement(nodes[i]) /\ \A j \in 1..(i - 1) : ~IsElement(nodes[j])

WithoutFirstThumbnail(nodes) ==
    CHOOSE r \in {IF k # 0 /\ IsThumbnailPara(nodes[k])
                  THEN SubSeq(nodes, 1, k - 1) \o SubSeq(nodes, k + 1, Len(nodes))
                  ELSE nodes : k \in {FirstElement(nodes)}} : TRUE

\* line 169: $main('p:first-child > img.thumbnail').closest('p').remove()
RECURSIVE RemoveThumbnail(_)
RemoveThumbnail(nodes) ==
    CHOOSE r \in
        {[i \in 1..Len(kept) |->
             [kept[i] EXCEPT !.kids = RemoveThumbnail(kept[i].kids)]] :
             kept \in {WithoutFirstThumbnail(nodes)}} : TRUE

\* lines 167-171: the main content loaded as a document of its own, and
\* $main.html()
NewsMain(mainContent) ==
    CHOOSE h \in {RootHtml([head |-> d.head, body |-> RemoveThumbnail(d.body)]) :
                     d \in {Load(mainContent)}} : TRUE

\* lines 161-179, on the document left by the removals
NewsBody(d) ==
    CHOOSE b \in {(IF mainContent # <<>> THEN NewsMain(mainContent) ELSE <<>>)
                     \o subContent :
                     mainContent \in {InnerHtml(Select(d, MainContent))},
                     subContent \in {InnerHtml(Select(d, SubContent))}} : TRUE

cleanNewsBody(rawBody) ==
    IF rawBody = <<>> THEN <<>>
    ELSE CHOOSE out \in {TrimHtml(NewsBody(d)) :
                            d \in {RemoveAll(Load(rawBody), NewsChrome)}} : TRUE

cleanScholarshipBody(rawBody) ==
    IF rawBody = <<>> THEN <<>>
    ELSE CHOOSE out \in {TrimHtml(InnerHtml(Select(d, MainContent))) :
                            d \in {RemoveAll(Load(rawBody), ScholarshipChrome)}} : TRUE

\* lines 236-253, on the document left by the removals
PageBody(d) ==
    CHOOSE b \in {IF mainContent \o subContent # <<>> THEN mainContent \o subContent
                  ELSE RootHtml(d) :
                     mainContent \in {InnerHtml(Select(d, MainContent))},
                     subContent \in {InnerHtml(Select(d, SubContent))}} : TRUE

cleanPageBody(rawBody) ==
    IF rawBody = <<>> THEN <<>>
    ELSE CHOOSE out \in {TrimHtml(PageBody(d)) :
                            d \in {RemoveAll(Load(rawBody), PageChrome)}} : TRUE

(***************************************************************************)
(* parseScholarshipFields.  A text is a sequence of text tokens; a field   *)
(* label is one token, and the regular expressions of the source are       *)
(* evaluated on the tokens.  Field labels are written in the paragraphs    *)
(* that are children of the main content, or directly in it.               *)
(***************************************************************************)
LabelNames == {"eligibility", "amount", "renewable", "deadline", "requirements", "apply"}

\* the spellings of the labels that occur in the texts: the name the
\* spelling has in lower case, whether it ends in a colon, and whether it
\* is capitalized as in the source
LabelForms == {
    [tok |-> "Eligibility:", name |-> "eligibility", colon |-> TRUE, capital |-> TRUE],
    [tok |-> "Amount:", name |-> "amount", colon |-> TRUE, capital |-> TRUE],
    [tok |-> "Renewable:", name |-> "renewable", colon |-> TRUE, capital |-> TRUE],
    [tok |-> "Deadline:", name |-> "deadline", colon |-> TRUE, capital |-> TRUE],
    [tok |-> "Requirements:", name |-> "requirements", colon |-> TRUE, capital |-> TRUE],
    [tok |-> "Apply:", name |-> "apply", colon |-> TRUE, capital |-> TRUE],
    [tok |-> "Amount", name |-> "amount", colon |-> FALSE, capital |-> TRUE],
    [tok |-> "Deadline", name |-> "deadline", colon |-> FALSE, capital |-> TRUE],
    [tok |-> "renewable:", name |-> "renewable", colon |-> TRUE, capital |-> FALSE],
    [tok |-> "DEADLINE:", name |-> "deadline", colon |-> TRUE, capital |-> FALSE] }

\* /^(names):?$/i.test(tok)
IsLabel(tok, names) == \E f \in LabelForms : f.tok = tok /\ f.name \in names

\* /^(names):/i.test(text)
BeginsWithLabel(text, names) ==
    text # <<>> /\ \E f \in LabelForms : f.tok = Head(text) /\ f.colon /\ f.name \in names

\* text.startsWith(Name), Name being the name capitalized
StartsWithName(text, name) ==
    text # <<>> /\ \E f \in LabelForms : f.tok = Head(text) /\ f.capital /\ f.name = name

\* text.trim().replace(/:$/, '').toLowerCase() when it is a label, "" for
\* any other text
LabelOf(text) ==
    IF Len(Trim(text)) = 1 /\ IsLabel(Trim(text)[1], LabelNames)
    THEN (CHOOSE f \in LabelForms : f.tok = Trim(text)[1]).name
    ELSE ""

\* text.replace(/^Name:\s*/i, '').trim()
AfterLabel(text, name) ==
    IF BeginsWithLabel(text, {name}) THEN Trim(Tail(text)) ELSE Trim(text)

\* text.replace(/\s*(names):?\s*$/i, '').trim()
ScrubTrailingLabel(text, names) ==
    CHOOSE r \in {IF e # <<>> /\ IsLabel(Last(e), names) THEN Trim(Front(e)) ELSE Trim(text) :
                     e \in {TrimEnd(text)}} : TRUE

\* lines 417-423
AfterLastDeadline(text) ==
    IF \E i \in 1..Len(text) : text[i] = "Deadline:"
    THEN Trim(SubSeq(text, 1 + (CHOOSE i \in 1..Len(text) :
                                    /\ text[i] = "Deadline:"
                                    /\ \A j \in (i + 1)..Len(text) : text[j] # "Deadline:"),
                     Len(text)))
    ELSE AfterLabel(text, "deadline")

\* /^yes/ without the i flag
TestYesLowerCase(text) == text # <<>> /\ Head(text) = "yes"

\* /^yes/i.test(text)
TestYes(text) == text # <<>> /\ Head(text) \in {"yes", "Yes", "YES"}

\* $(nodes).text()
RECURSIVE TextOf(_)
TextOf(nodes) ==
    IF nodes = <<>> THEN <<>>
    ELSE (IF IsElement(Head(nodes)) THEN TextOf(Head(nodes).kids) ELSE Head(nodes).text)
         \o TextOf(Tail(nodes))

\* selection.children()
Elements(nodes) == SelectSeq(nodes, IsElement)

Strong == Sel("strong", {})

\* lines 311-314
hasFieldLabel(el) ==
    \/ BeginsWithLabel(Trim(TextOf(el.kids)), LabelNames)
    \/ \E s \in Range(FindAll(el.kids, Strong)) : LabelOf(TextOf(s.kids)) # ""

\* the position in E of the first element with a field label, 0 if none
TriggerIndex(E) ==
    IF \A i \in 1..Len(E) : ~hasFieldLabel(E[i]) THEN 0
    ELSE CHOOSE i \in 1..Len(E) :
             hasFieldLabel(E[i]) /\ \A j \in 1..(i - 1) : ~hasFieldLabel(E[j])

\* <strong>\s*Eligibility:\s*</strong>
IsEligibilityStrong(n) ==
    /\ n.tag = "strong" /\ n.class = ""
    /\ \A i \in 1..Len(n.kids) : ~IsElement(n.kids[i])
    /\ Len(Trim(TextOf(n.kids))) = 1
    /\ BeginsWithLabel(Trim(TextOf(n.kids)), {"eligibility"})

\* line 324: .replace(/<br\s*\/?>\s*$/gi, '').trim()
WithoutTrailingBr(h) ==
    CHOOSE r \in {IF e # <<>> /\ Last(e).tag = "br" THEN TrimEndHtml(Front(e)) ELSE e :
                     e \in {TrimEndHtml(h)}} : TRUE

\* lines 320-333: what precedes the Eligibility label inside the element.  A
\* paragraph is closed again (line 328); any other element is pushed unclosed
\* (line 330) and stands here as the element an HTML parser reads from it.
EligibilityPrefix(el) ==
    IF \A i \in 1..Len(el.kids) : ~IsEligibilityStrong(el.kids[i]) THEN <<>>
    ELSE LET k == CHOOSE i \in 1..Len(el.kids) :
                      /\ IsEligibilityStrong(el.kids[i])
                      /\ \A j \in 1..(i - 1) : ~IsEligibilityStrong(el.kids[j])
         IN  <<Elem(el.tag, el.class, WithoutTrailingBr(SubSeq(el.kids, 1, k - 1)))>>

\* lines 302-343
DescriptionUpTo(E, k) ==
    IF k = 0 THEN SelectSeq(E, LAMBDA el : el.tag # "script")
    ELSE SelectSeq(SubSeq(E, 1, k - 1), LAMBDA el : el.tag # "script")
         \o EligibilityPrefix(E[k])

Description(E) ==
    CHOOSE d \in {TrimHtml(DescriptionUpTo(E, k)) : k \in {TriggerIndex(E)}} : TRUE

\* el.nextAll(tags).first() for the i-th child: its position, 0 if none
NextOf(E, i, tags) ==
    IF i = 0 \/ \A j \in (i + 1)..Len(E) : E[j].tag \notin tags THEN 0
    ELSE CHOOSE j \in (i + 1)..Len(E) :
             E[j].tag \in tags /\ \A m \in (i + 1)..(j - 1) : E[m].tag \notin tags

\* nextList.find('li').toArray().map(li => $content(li).text().trim())
ListItems(list) ==
    CHOOSE r \in {[m \in 1..Len(lis) |-> Trim(TextOf(lis[m].kids))] :
                     lis \in {FindAll(list.kids, Sel("li", {}))}} : TRUE

\* the strong elements of the i-th child on, in document order, each with its
\* label and the position of the paragraph it is in (0 when it is in none)
RECURSIVE SitesFrom(_, _)
SitesFrom(E, i) ==
    IF i > Len(E) THEN <<>>
    ELSE (CHOOSE r \in {[j \in 1..Len(ss) |->
                            [label |-> LabelOf(TextOf(ss[j].kids)),
                             para |-> IF E[i].tag = "p" THEN i ELSE 0]] :
                            ss \in {FindAll(<<E[i]>>, Strong)}} : TRUE)
         \o SitesFrom(E, i + 1)

\* the text of the paragraph after the i-th child, whatever it begins with
NextParagraphTextUnguarded(E, i, guarded) ==
    CHOOSE r \in {IF j = 0 THEN <<>> ELSE Trim(TextOf(E[j].kids)) :
                     j \in {NextOf(E, i, {"p"})}} : TRUE

\* the text of the paragraph after the i-th child when it may be taken for a
\* field, '' otherwise; guarded names the labels it must not begin with
NextParagraphText(E, i, guarded) ==
    CHOOSE r \in {IF j = 0 THEN <<>>
                  ELSE IF BeginsWithLabel(Trim(TextOf(E[j].kids)), guarded) THEN <<>>
                  ELSE Trim(TextOf(E[j].kids)) : j \in {NextOf(E, i, {"p"})}} : TRUE

\* lines 353-363 and 440-446
ListAfter(E, i, old) ==
    CHOOSE r \in {IF j = 0 THEN old ELSE ListItems(E[j]) :
                     j \in {NextOf(E, i, {"ul", "ol"})}} : TRUE

\* lines 364-384
AmountAt(E, i, old) ==
    IF i = 0 THEN old
    ELSE CHOOSE r \in
        {IF afterLabel # <<>> /\ ~StartsWithName(afterLabel, "renewable")
                              /\ ~StartsWithName(afterLabel, "deadline")
         THEN afterLabel
         ELSE IF NextOf(E, i, {"p"}) = 0
                 \/ BeginsWithLabel(Trim(TextOf(E[NextOf(E, i, {"p"})].kids)),
                                    {"renewable", "deadline", "requirements", "apply",
                                     "eligibility"})
              THEN old
         ELSE Trim(TextOf(E[NextOf(E, i, {"p"})].kids)) :
             afterLabel \in {AfterLabel(Trim(TextOf(E[i].kids)), "amount")}} : TRUE

\* lines 388-404
RenewText(E, i) ==
    CHOOSE r \in
        {ScrubTrailingLabel(
             IF afterLabel # <<>> THEN afterLabel
             ELSE NextParagraphText(E, i, {"deadline", "requirements", "apply", "amount",
                                           "eligibility"}),
             {"deadline", "requirements", "apply", "amount", "eligibility"}) :
             afterLabel \in {AfterLabel(Trim(TextOf(E[i].kids)), "renewable")}} : TRUE

\* lines 385-410
RenewableAt(E, i, old) ==
    IF i = 0 THEN old
    ELSE CHOOSE r \in {IF renewText # <<>>
                       THEN [isRenewable |-> TestYes(renewText), details |-> renewText]
                       ELSE old : renewText \in {RenewText(E, i)}} : TRUE

\* lines 411-439
DeadlineAt(E, i, old) ==
    IF i = 0 THEN old
    ELSE CHOOSE r \in
        {IF afterLabel # <<>> /\ ~BeginsWithLabel(afterLabel, {"requirements", "apply"})
         THEN afterLabel
         ELSE IF NextOf(E, i, {"p"}) = 0
                 \/ BeginsWithLabel(Trim(TextOf(E[NextOf(E, i, {"p"})].kids)),
                                    {"requirements", "apply", "amount", "renewable",
                                     "eligibility"})
              THEN old
         ELSE Trim(TextOf(E[NextOf(E, i, {"p"})].kids)) :
             afterLabel \in {ScrubTrailingLabel(
                                 AfterLastDeadline(Trim(TextOf(E[i].kids))),
                                 {"requirements", "apply", "amount", "renewable",
                                  "eligibility"})}} : TRUE

\* one iteration of the loop of line 349
ApplySite(res, site, E) ==
    CASE site.label = "eligibility" ->
             [res EXCEPT !.eligibility = ListAfter(E, site.para, res.eligibility)]
      [] site.label = "amount" ->
             [res EXCEPT !.amount = AmountAt(E, site.para, res.amount)]
      [] site.label = "renewable" ->
             [res EXCEPT !.renewable = RenewableAt(E, site.para, res.renewable)]
      [] site.label = "deadline" ->
             [res EXCEPT !.deadline = DeadlineAt(E, site.para, res.deadline)]
      [] site.label = "requirements" ->
             [res EXCEPT !.requirements = ListAfter(E, site.para, res.requirements)]
      [] OTHER -> res

\* the loop of line 349 from the k-th strong element on
RECURSIVE ParseFrom(_, _, _, _)
ParseFrom(res, sites, k, E) ==
    IF k > Len(sites) THEN res
    ELSE CHOOSE r \in {ParseFrom(next, sites, k + 1, E) :
                          next \in {ApplySite(res, sites[k], E)}} : TRUE

\* lines 291-298
Defaults ==
    [eligibility |-> <<>>, amount |-> <<>>,
     renewable |-> [isRenewable |-> FALSE, details |-> <<>>],
     deadline |-> <<>>, requirements |-> <<>>, description |-> <<>>]

\* the object {} of lines 281 and 286: it has none of the fields
EmptyObject == [constructor |-> "Object"]

\* lines 288-449, E being the children of the body of $content
ParseContent(E) ==
    CHOOSE r \in {ParseFrom([Defaults EXCEPT !.description = Description(E)], sites, 1, E) :
                     sites \in {SitesFrom(E, 1)}} : TRUE

parseScholarshipFields(rawBody) ==
    IF rawBody = <<>> THEN EmptyObject
    ELSE CHOOSE r \in
        {IF mainSection = <<>> THEN EmptyObject
         ELSE ParseContent(Elements(Load(InnerHtml(mainSection)).body)) :
             mainSection \in {Select(Load(rawBody), MainContent)}} : TRUE

(***************************************************************************)
(* processNews, processScholarships, processPages: the map callbacks, on   *)
(* the fields of the record that come from data.body and data.fields       *)
(***************************************************************************)
\* the pieces of text between the tokens at the positions cuts
RECURSIVE PiecesFrom(_, _, _)
PiecesFrom(text, cuts, from) ==
    IF \A c \in cuts : c < from THEN <<SubSeq(text, from, Len(text))>>
    ELSE CHOOSE r \in {<<SubSeq(text, from, c - 1)>> \o PiecesFrom(text, cuts, c + 1) :
                          c \in {CHOOSE c \in cuts : c >= from /\ \A d \in cuts : d >= from => c <= d}} :
             TRUE

NonEmpty(texts) == SelectSeq(texts, LAMBDA x : x # <<>>)

\* line 569: s.split(';').map(s => s.trim()).filter(Boolean)
SplitOnSemicolons(text) ==
    CHOOSE r \in {NonEmpty([i \in 1..Len(ps) |-> Trim(ps[i])]) :
                     ps \in {PiecesFrom(text, {i \in 1..Len(text) : text[i] = ";"}, 1)}} : TRUE

\* tokens that begin with a capital letter
Capitalized == {"Essay", "Transcript", "Senior", "Resident"}

\* s.replace(/\.$/, '')
WithoutFinalPeriod(s) == IF s # <<>> /\ Last(s) = "." THEN Front(s) ELSE s

\* lines 598-601: s.split(/\.(?=[A-Z])/).map(s => s.trim().replace(/\.$/, '')).filter(Boolean)
SplitSentences(text) ==
    CHOOSE r \in {NonEmpty([i \in 1..Len(ps) |-> WithoutFinalPeriod(Trim(ps[i]))]) :
                     ps \in {PiecesFrom(text, {i \in 1..(Len(text) - 1) :
                                                  text[i] = "." /\ text[i + 1] \in Capitalized},
                                        1)}} : TRUE

\* the fallback taken whenever the raw field is there
RawFieldWins(parsedValue, rawValue) == rawValue # <<>>

\* !parsedValue && rawValue (lines 568, 574, 580, 591, 597): undefined, ''
\* and [] all stand as <<>>
FallsBack(parsedValue, rawValue) == parsedValue = <<>> /\ rawValue # <<>>

\* parsed.key, undefined standing as <<>>
Prop(obj, key) == IF key \in DOMAIN obj THEN obj[key] ELSE <<>>

\* lines 582-586
RenewableOfField(raw) ==
    CHOOSE r \in {[isRenewable |-> TestYes(cleanedRenewable), details |-> cleanedRenewable] :
                     cleanedRenewable \in
                         {ScrubTrailingLabel(raw, {"deadline", "requirements", "apply"})}} :
        TRUE

\* what the callback of processScholarships throws at line 580 when parsed
\* has no renewable
TypeError == [raised |-> TRUE]

\* lines 563-616, parsed having a renewable
Merged(parsed, cleanedBody, fields) ==
    [raised |-> FALSE,
     eligibility |->
         IF FallsBack(parsed.eligibility, fields.eligibility)
         THEN SplitOnSemicolons(fields.eligibility) ELSE parsed.eligibility,
     amount |->
         IF FallsBack(parsed.amount, fields.amount)
            /\ ~BeginsWithLabel(fields.amount, {"renewable", "deadline"})
         THEN ScrubTrailingLabel(fields.amount,
                                 {"renewable", "deadline", "requirements", "apply"})
         ELSE parsed.amount,
     renewable |->
         IF FallsBack(parsed.renewable.details, fields.renewable)
            /\ ~BeginsWithLabel(fields.renewable, {"deadline"})
         THEN RenewableOfField(fields.renewable) ELSE parsed.renewable,
     deadline |->
         IF FallsBack(parsed.deadline, fields.deadline)
         THEN fields.deadline ELSE parsed.deadline,
     requirements |->
         IF FallsBack(parsed.requirements, fields.requirements)
         THEN SplitSentences(fields.requirements) ELSE parsed.requirements,
     description |->
         IF parsed.description # <<>> THEN parsed.description ELSE cleanedBody]

\* lines 558-616: the record the callback returns, or what it throws
ScholarshipRecord(parsed, cleanedBody, fields) ==
    IF "renewable" \notin DOMAIN parsed THEN TypeError
    ELSE Merged(parsed, cleanedBody, fields)

(***************************************************************************)
(* The raw records the transformer is run on                               *)
(***************************************************************************)
Para(toks) == Elem("p", "", <<Text(toks)>>)
Labelled(label, rest) ==
    Elem("p", "", <<Elem("strong", "", <<Text(<<label>>)>>)>> \o rest)
Items(texts) ==
    Elem("ul", "", [i \in 1..Len(texts) |-> Elem("li", "", <<Text(<<texts[i]>>)>>)])
Br == Elem("br", "", <<>>)
Script == Elem("script", "", <<>>)
Share == Elem("div", "share", <<Elem("a", "a2a_kit", <<Text(<<"Facebook">>)>>)>>)

Banner == Elem("section", "banner", <<Elem("h1", "", <<Text(<<"Title">>)>>)>>)
TextBanner ==
    Elem("section", "text-banner",
         <<Elem("p", "section", <<Text(<<"News">>)>>), Elem("h1", "", <<Text(<<"Title">>)>>)>>)
MainPlain ==
    Elem("section", "main-content", <<Text(<<" ">>), Para(<<"Body text.">>), Text(<<" ">>)>>)
MainNews ==
    Elem("section", "main-content",
         <<Elem("p", "", <<Elem("img", "thumbnail", <<>>)>>), Para(<<"Body text.">>),
           Share, Script>>)
MainEmpty == Elem("section", "main-content", <<>>)
SubCallout == Elem("section", "sub-content", <<Para(<<"Call us.">>)>>)
SubNav ==
    Elem("section", "sub-content",
         <<Elem("div", "side-block",
                <<Elem("ul", "sub-nav", <<Elem("li", "", <<Text(<<"About">>)>>)>>),
                  Para(<<"Call us.">>)>>)>>)
ArticleInfo == Elem("section", "article-info", <<Para(<<"Author">>), Share>>)
SideNav == Elem("section", "side-nav", <<Items(<<"About", "Donors">>)>>)
Signup == Elem("div", "ctct-inline-form", <<>>)

\* bodies that differ in the regions around the content
ChromeBodies ==
    {lead \o main \o sub \o tail :
        lead \in {<<>>, <<Banner>>, <<TextBanner, Text(<<" ">>)>>, <<Script>>},
        main \in {<<>>, <<MainPlain>>, <<MainNews>>, <<MainEmpty>>},
        sub \in {<<>>, <<SubCallout>>, <<SubNav>>},
        tail \in {<<>>, <<ArticleInfo>>, <<SideNav, Signup>>}}

EligibilityList == Items(<<"GPA 3.0", "Resident">>)

IntroParts ==
    { <<>>,
      <<Para(<<"Intro text.">>)>>,
      <<Labelled("Eligibility:", <<>>), EligibilityList>>,
      <<Para(<<"Intro text.">>), Labelled("Eligibility:", <<>>), EligibilityList>>,
      <<Elem("p", "", <<Text(<<"Intro text.">>), Br, Br,
                        Elem("strong", "", <<Text(<<"Eligibility:">>)>>)>>),
        EligibilityList>>,
      <<Elem("p", "", <<Text(<<"Intro text.">>), Br, Br,
                        Elem("strong", "", <<Text(<<"Apply:">>)>>),
                        Text(<<" ", "Online.">>)>>)>> }
AmountParts ==
    { <<>>,
      <<Labelled("Amount:", <<Text(<<" ", "$1,000">>)>>)>>,
      <<Labelled("Amount:", <<>>), Para(<<"$1,000">>)>>,
      <<Labelled("Amount:", <<>>)>>,
      <<Labelled("Amount:", <<Text(<<" ", "$1,000", " ", "Renewable:">>)>>)>> }
RenewableParts ==
    { <<>>,
      <<Labelled("Renewable:", <<Text(<<" ", "Yes", ", up to 3 years.">>)>>)>>,
      <<Labelled("Renewable:", <<Text(<<" ", "No.">>)>>)>>,
      <<Labelled("Renewable:", <<>>)>>,
      <<Labelled("renewable:", <<Text(<<" ", "YES", " ", "Deadline:">>)>>)>> }
DeadlineParts ==
    { <<>>,
      <<Labelled("Deadline:", <<Text(<<" ", "March 1">>)>>)>>,
      <<Labelled("Deadline:", <<>>), Para(<<"March 1">>)>>,
      <<Labelled("Deadline:", <<>>), Para(<<"March 1", " ", "Apply:">>)>> }
RequirementsParts ==
    { <<>>, <<Labelled("Requirements:", <<>>), Items(<<"Essay">>)>> }

\* what a scholarship page has in its main content
ScholarshipContents ==
    {i \o a \o r \o d \o q : i \in IntroParts, a \in AmountParts, r \in RenewableParts,
                             d \in DeadlineParts, q \in RequirementsParts}

\* the body of the round-trip example, without a main-content section around it
ExampleContent ==
    << Elem("p", "", <<Text(<<"Intro text.">>), Br, Br,
                       Elem("strong", "", <<Text(<<"Eligibility:">>)>>)>>),
       EligibilityList,
       Labelled("Amount:", <<Text(<<" ", "$1,000">>)>>),
       Labelled("Deadline:", <<Text(<<" ", "March 1">>)>>) >>

ScholarshipBodies ==
    {<<Banner, Elem("section", "main-content", c), SideNav>> : c \in ScholarshipContents}

RawBodies == ChromeBodies \cup ScholarshipBodies \cup {ExampleContent}

NoFields ==
    [eligibility |-> <<>>, amount |-> <<>>, renewable |-> <<>>, deadline |-> <<>>,
     requirements |-> <<>>]

\* data.fields as the extractor can have left it
FieldBags ==
    { NoFields,
      [eligibility |-> <<"Senior", ";", " ", "Resident", ";">>,
       amount |-> <<"$500", " ", "Renewable:">>,
       renewable |-> <<"yes", ", annually", " ", "Deadline:">>,
       deadline |-> <<"April 15">>,
       requirements |-> <<"Essay", ".", "Transcript", ".">>],
      [eligibility |-> <<>>,
       amount |-> <<"Deadline:", " ", "April 15">>,
       renewable |-> <<"No.">>,
       deadline |-> <<>>,
       requirements |-> <<"Essay">>],
      [eligibility |-> <<"Senior">>,
       amount |-> <<"$500">>,
       renewable |-> <<"Deadline:", " ", "April 15">>,
       deadline |-> <<"April 15">>,
       requirements |-> <<>>] }

Kinds == {"news", "scholarships", "pages"}

NoRecord == [raised |-> FALSE]

InitPrep ==
    /\ CrawlIdle /\ NormIdle /\ ClassIdle /\ XferIdle
    /\ pKind \in Kinds
    /\ pBody \in RawBodies
    /\ pFields \in IF pKind = "scholarships" THEN FieldBags ELSE {NoFields}
    /\ pParsed = EmptyObject /\ pOut = <<>> /\ pOut2 = <<>> /\ pRecord = NoRecord
    /\ pPc = "read"

\* the callback of line 479, as far as the body goes
ProcessNews ==
    /\ pPc = "read" /\ pKind = "news"
    /\ pOut' = cleanNewsBody(pBody)
    /\ pPc' = "emitted"
    /\ UNCHANGED <<crawlVars, normVars, classVars, xferVars, pKind, pBody, pFields, pParsed,
                   pOut2, pRecord>>

\* the callback of line 552
ProcessScholarship ==
    /\ pPc = "read" /\ pKind = "scholarships"
    /\ pParsed' = parseScholarshipFields(pBody)
    /\ pOut' = cleanScholarshipBody(pBody)
    /\ pRecord' = ScholarshipRecord(pParsed', pOut', pFields)
    /\ pPc' = IF pRecord'.raised THEN "raised" ELSE "emitted"
    /\ UNCHANGED <<crawlVars, normVars, classVars, xferVars, pKind, pBody, pFields, pOut2>>

\* the callback of line 631, as far as the body goes
ProcessPage ==
    /\ pPc = "read" /\ pKind = "pages"
    /\ pOut' = cleanPageBody(pBody)
    /\ pPc' = "emitted"
    /\ UNCHANGED <<crawlVars, normVars, classVars, xferVars, pKind, pBody, pFields, pParsed,
                   pOut2, pRecord>>

\* the cleaner of the record's kind
Cleaned(kind, body) ==
    CASE kind = "news" -> cleanNewsBody(body)
      [] kind = "scholarships" -> cleanScholarshipBody(body)
      [] OTHER -> cleanPageBody(body)

\* the cleaner run on the body it returned
CleanAgain ==
    /\ pPc \in {"emitted", "raised"}
    /\ pOut2' = Cleaned(pKind, pOut)
    /\ pPc' = "recleaned"
    /\ UNCHANGED <<crawlVars, normVars, classVars, xferVars, pKind, pBody, pFields, pParsed,
                   pOut, pRecord>>

NextPrep == ProcessNews \/ ProcessScholarship \/ ProcessPage \/ CleanAgain

SpecPrep == InitPrep /\ [][NextPrep]_vars

(***************************************************************************)
(* download-images.mjs.  An image URL is written like a page URL; the name *)
(* of a file in scraped-data/images is the sanitized name and the number   *)
(* that line 126 puts before its extension (0 for no number).  A map       *)
(* (image-map.json, image-map-r2.json) is the sequence of its entries in   *)
(* insertion order.                                                        *)
(***************************************************************************)
CONCURRENCY == 2         \* --concurrency 2
SAVE_EVERY == 10         \* line 146: i % (CONCURRENCY * 10)
MaxRuns == 2

\* two file names of 201 characters that differ in the 195th only, and
\* what slice(0, 190) + ext makes of both
LONG_A == "banner-2019-...-a.png"
LONG_B == "banner-2019-...-b.png"
LONG_CUT == "banner-2019-....png"

ImgLogo == <<WWW, "/", "img", "/", "logo.png">>
ImgLogoApex == <<APEX, "/", "img", "/", "logo.png">>
ImgLogoQuery == <<WWW, "/", "img", "/", "logo.png", "?page=2">>
ImgHero == <<WWW, "/", "img", "/", "hero.jpg">>
ImgLongA == <<WWW, "/", LONG_A>>
ImgLongB == <<WWW, "/", LONG_B>>
ImgData == <<"data:image/png;base64,AAAA">>
ImgRelative == <<"/", "img", "/", "icon.svg">>

Manifests ==
    { <<ImgLogo, ImgLogoApex, ImgData, ImgHero>>,
      <<ImgHero, ImgLogo, ImgRelative, ImgLogoQuery>>,
      <<ImgLongA, ImgHero, ImgLongB>> }

\* lines 34-37: a name longer than 200 characters is cut
Sliced(name) == IF name \in {<<LONG_A>>, <<LONG_B>>} THEN <<LONG_CUT>> ELSE name

\* s.replace(/\//g, '__')
Underscores(s) == [n \in 1..Len(s) |-> IF s[n] = "/" THEN "__" ELSE s[n]]

\* lines 29-42; new URL(url) has no base, so a relative reference throws
sanitizeFilename(u) ==
    IF u = <<>> \/ Head(u) \notin OriginTok THEN <<"unknown">>
    ELSE CHOOSE r \in {OrElse(Sliced(Underscores(StripLeadingSlash(parsed.pathname))),
                              <<"unknown">>) : parsed \in {ParseURL(u)}} : TRUE

\* line 126: `${base}_${counter}${ext}`, line 118 when the counter is 0
Numbered(filename, counter) == [name |-> filename, n |-> counter]

\* map[key] and map[key] = value
HasKey(map, key) == \E n \in 1..Len(map) : map[n].url = key
MapPut(map, key, value) ==
    IF HasKey(map, key)
    THEN [n \in 1..Len(map) |->
             IF map[n].url = key THEN [url |-> key, path |-> value] ELSE map[n]]
    ELSE Append(map, [url |-> key, path |-> value])

\* a map that gets an entry also for a transfer that failed
MapAfterAny(map, key, value, ok) == MapPut(map, key, value)

\* lines 130-140 and 90-106 of the uploader: the map after a transfer
MapAfter(map, key, value, ok) == IF ok THEN MapPut(map, key, value) ELSE map

\* lines 101-106
Wanted(map, u) ==
    /\ ~HasKey(map, u)
    /\ Head(u) # "data:image/png;base64,AAAA"
    /\ Head(u) \in OriginTok

\* lines 115-121: the promises of the batch that starts at position from, each
\* about to test its destPath
BatchAt(list, from) ==
    [u \in {list[n] : n \in (from + 1)..(from + CONCURRENCY)
                                   \cap 1..Len(list)} |->
        [at |-> "exists", finalPath |-> Numbered(sanitizeFilename(u), 0), counter |-> 1]]

InitDownload ==
    /\ CrawlIdle /\ NormIdle /\ ClassIdle /\ PrepIdle /\ UploadIdle
    /\ manifest \in Manifests
    /\ mapFile = NoFile /\ imageFiles = {}
    /\ imageMap = <<>> /\ toDownload = <<>> /\ completed = 0 /\ failed = 0
    /\ batchStart = 0 /\ jobs = <<>> /\ dPc = "start" /\ dRuns = 0
    /\ outcome = <<>> /\ downloads = <<>>

\* lines 80-115: a run of the downloader begins, the first one or one after a
\* run that ended or was stopped
StartDownload ==
    /\ dPc \in {"start", "done", "killed"} /\ dRuns < MaxRuns
    /\ dRuns' = dRuns + 1
    /\ imageMap' = IF mapFile.exists THEN mapFile.content ELSE <<>>
    /\ toDownload' = SelectSeq(manifest, LAMBDA u : Wanted(imageMap', u))
    /\ completed' = 0 /\ failed' = 0 /\ batchStart' = 0
    /\ jobs' = BatchAt(toDownload', 0)
    /\ outcome' = <<>>
    /\ dPc' = IF toDownload' = <<>> THEN "final" ELSE "batch"
    /\ UNCHANGED <<crawlVars, normVars, classVars, prepVars, uploadVars, manifest,
                   mapFile, imageFiles, downloads>>

\* lines 123-128: one turn of the while loop of one promise
PathExists ==
    \E u \in DOMAIN jobs :
        /\ dPc = "batch" /\ jobs[u].at = "exists"
        /\ jobs' = IF jobs[u].finalPath \in imageFiles
                   THEN [jobs EXCEPT ![u].finalPath =
                                         Numbered(sanitizeFilename(u), jobs[u].counter),
                                     ![u].counter = jobs[u].counter + 1]
                   ELSE [jobs EXCEPT ![u].at = "get"]
        /\ UNCHANGED <<crawlVars, normVars, classVars, prepVars, uploadVars, manifest,
                       mapFile, imageFiles, imageMap, toDownload, completed, failed,
                       batchStart, dPc, dRuns, outcome, downloads>>

\* lines 55-61: status 200, the file is created and the response piped to it
Response200 ==
    \E u \in DOMAIN jobs :
        /\ dPc = "batch" /\ jobs[u].at = "get"
        /\ imageFiles' = imageFiles \cup {jobs[u].finalPath}
        /\ jobs' = [jobs EXCEPT ![u].at = "pipe"]
        /\ UNCHANGED <<crawlVars, normVars, classVars, prepVars, uploadVars, manifest,
                       mapFile, imageMap, toDownload, completed, failed, batchStart,
                       dPc, dRuns, outcome, downloads>>

\* lines 137-140, after line 56, 72 or 75: the promise of downloadFile rejects
\* and no file was created
ResponseRejected ==
    \E u \in DOMAIN jobs :
        /\ dPc = "batch" /\ jobs[u].at = "get"
        /\ imageMap' = MapAfter(imageMap, u, jobs[u].finalPath, FALSE)
        /\ failed' = failed + 1
        /\ outcome' = (u :> "failed") @@ outcome
        /\ jobs' = [jobs EXCEPT ![u].at = "settled"]
        /\ UNCHANGED <<crawlVars, normVars, classVars, prepVars, uploadVars, manifest,
                       mapFile, imageFiles, toDownload, completed, batchStart, dPc,
                       dRuns, downloads>>

\* lines 62-65 and 132-133: the file is written, the URL is mapped
FileFinish ==
    \E u \in DOMAIN jobs :
        /\ dPc = "batch" /\ jobs[u].at = "pipe"
        /\ imageMap' = MapAfter(imageMap, u, jobs[u].finalPath, TRUE)
        /\ completed' = completed + 1
        /\ outcome' = (u :> "ok") @@ outcome
        /\ downloads' = Append(downloads, [url |-> u, path |-> jobs[u].finalPath])
        /\ jobs' = [jobs EXCEPT ![u].at = "settled"]
        /\ UNCHANGED <<crawlVars, normVars, classVars, prepVars, uploadVars, manifest,
                       mapFile, imageFiles, toDownload, failed, batchStart, dPc, dRuns>>

\* lines 66-69 and 137-140: the write stream fails, the file is unlinked
FileError ==
    \E u \in DOMAIN jobs :
        /\ dPc = "batch" /\ jobs[u].at = "pipe"
        /\ imageFiles' = imageFiles \ {jobs[u].finalPath}
        /\ imageMap' = MapAfter(imageMap, u, jobs[u].finalPath, FALSE)
        /\ failed' = failed + 1
        /\ outcome' = (u :> "failed") @@ outcome
        /\ jobs' = [jobs EXCEPT ![u].at = "settled"]
        /\ UNCHANGED <<crawlVars, normVars, classVars, prepVars, uploadVars, manifest,
                       mapFile, toDownload, completed, batchStart, dPc, dRuns, downloads>>

\* lines 143-149 and 114: Promise.all resolves, the map is saved after the
\* batches that start at a multiple of CONCURRENCY * 10, the next batch begins
BatchEnd ==
    /\ dPc = "batch" /\ \A u \in DOMAIN jobs : jobs[u].at = "settled"
    /\ mapFile' = IF batchStart % (CONCURRENCY * SAVE_EVERY) = 0
                  THEN File(imageMap) ELSE mapFile
    /\ batchStart' = batchStart + CONCURRENCY
    /\ jobs' = BatchAt(toDownload, batchStart')
    /\ dPc' = IF batchStart' < Len(toDownload) THEN "batch" ELSE "final"
    /\ UNCHANGED <<crawlVars, normVars, classVars, prepVars, uploadVars, manifest,
                   imageFiles, imageMap, toDownload, completed, failed, dRuns,
                   outcome, downloads>>

\* line 152
FinalSave ==
    /\ dPc = "final"
    /\ mapFile' = File(imageMap)
    /\ dPc' = "done"
    /\ UNCHANGED <<crawlVars, normVars, classVars, prepVars, uploadVars, manifest,
                   imageFiles, imageMap, toDownload, completed, failed, batchStart,
                   jobs, dRuns, outcome, downloads>>

\* the process is stopped: its locals are gone, the files stay as they are
Interrupt ==
    /\ dPc \in {"batch", "final"}
    /\ dPc' = "killed"
    /\ imageMap' = <<>> /\ toDownload' = <<>> /\ completed' = 0 /\ failed' = 0
    /\ batchStart' = 0 /\ jobs' = <<>> /\ outcome' = <<>>
    /\ UNCHANGED <<crawlVars, normVars, classVars, prepVars, uploadVars, manifest,
                   mapFile, imageFiles, dRuns, downloads>>

(***************************************************************************)
(* upload-to-r2.mjs, run on an image-map.json and the files that are left  *)
(* of the downloads                                                        *)
(***************************************************************************)
UPLOADS_PER_SAVE == 10   \* line 99

\* line 87: images/ and the basename of the local path, which is a file of
\* scraped-data/images
R2Key(localPath) == localPath

\* the image map of three downloads, the third under a numbered name
UploadMap ==
    << [url |-> ImgLogo, path |-> Numbered(sanitizeFilename(ImgLogo), 0)],
       [url |-> ImgHero, path |-> Numbered(sanitizeFilename(ImgHero), 0)],
       [url |-> ImgLogoQuery, path |-> Numbered(sanitizeFilename(ImgLogoQuery), 1)] >>

\* any of the files may be gone
InitUpload ==
    /\ CrawlIdle /\ NormIdle /\ ClassIdle /\ PrepIdle
    /\ manifest = <<>> /\ mapFile = File(UploadMap)
    /\ imageFiles \in SUBSET {UploadMap[n].path : n \in 1..Len(UploadMap)}
    /\ imageMap = <<>> /\ toDownload = <<>> /\ completed = 0 /\ failed = 0
    /\ batchStart = 0 /\ jobs = <<>> /\ dPc = "off" /\ dRuns = 0
    /\ outcome = <<>> /\ downloads = <<>>
    /\ r2File = NoFile /\ entries = <<>> /\ r2Map = <<>>
    /\ uploaded = 0 /\ skipped = 0 /\ uFailed = 0 /\ entryIdx = 0
    /\ uPc = "start" /\ uRuns = 0 /\ uOutcome = <<>>

\* lines 49-72: a run of the uploader begins, the first one or one after a
\* run that ended or was stopped
StartUpload ==
    /\ mapFile.exists
    /\ uPc \in {"start", "done", "killed"} /\ uRuns < MaxRuns
    /\ uRuns' = uRuns + 1
    /\ entries' = mapFile.content
    /\ r2Map' = IF r2File.exists THEN r2File.content ELSE <<>>
    /\ uploaded' = 0 /\ skipped' = 0 /\ uFailed' = 0
    /\ entryIdx' = 1
    /\ uOutcome' = <<>>
    /\ uPc' = "loop"
    /\ UNCHANGED <<crawlVars, normVars, classVars, prepVars, downloadVars, r2File>>

\* lines 74-77
UploadSkip ==
    /\ uPc = "loop" /\ entryIdx <= Len(entries)
    /\ HasKey(r2Map, entries[entryIdx].url)
    /\ skipped' = skipped + 1
    /\ uOutcome' = (entries[entryIdx].url :> "skipped") @@ uOutcome
    /\ entryIdx' = entryIdx + 1
    /\ UNCHANGED <<crawlVars, normVars, classVars, prepVars, downloadVars, r2File,
                   entries, r2Map, uploaded, uFailed, uPc, uRuns>>

\* lines 79-84
UploadMissing ==
    /\ uPc = "loop" /\ entryIdx <= Len(entries)
    /\ ~HasKey(r2Map, entries[entryIdx].url)
    /\ entries[entryIdx].path \notin imageFiles
    /\ uFailed' = uFailed + 1
    /\ uOutcome' = (entries[entryIdx].url :> "missing") @@ uOutcome
    /\ entryIdx' = entryIdx + 1
    /\ UNCHANGED <<crawlVars, normVars, classVars, prepVars, downloadVars, r2File,
                   entries, r2Map, uploaded, skipped, uPc, uRuns>>

\* lines 90-106: wrangler puts the object (ok) or execSync throws
UploadPut ==
    /\ uPc = "loop" /\ entryIdx <= Len(entries)
    /\ ~HasKey(r2Map, entries[entryIdx].url)
    /\ entries[entryIdx].path \in imageFiles
    /\ \E ok \in BOOLEAN :
        /\ r2Map' = MapAfter(r2Map, entries[entryIdx].url,
                             R2Key(entries[entryIdx].path), ok)
        /\ uploaded' = IF ok THEN uploaded + 1 ELSE uploaded
        /\ uFailed' = IF ok THEN uFailed ELSE uFailed + 1
        /\ r2File' = IF ok /\ uploaded' % UPLOADS_PER_SAVE = 0
                     THEN File(r2Map') ELSE r2File
        /\ uOutcome' = (entries[entryIdx].url :> IF ok THEN "ok" ELSE "failed")
                           @@ uOutcome
    /\ entryIdx' = entryIdx + 1
    /\ UNCHANGED <<crawlVars, normVars, classVars, prepVars, downloadVars, entries,
                   skipped, uPc, uRuns>>

\* line 109
UploadFinish ==
    /\ uPc = "loop" /\ entryIdx > Len(entries)
    /\ r2File' = File(r2Map)
    /\ uPc' = "done"
    /\ UNCHANGED <<crawlVars, normVars, classVars, prepVars, downloadVars, entries,
                   r2Map, uploaded, skipped, uFailed, entryIdx, uRuns, uOutcome>>

\* the process is stopped: its locals are gone, the file stays as it is
InterruptUpload ==
    /\ uPc = "loop"
    /\ uPc' = "killed"
    /\ entries' = <<>> /\ r2Map' = <<>> /\ uploaded' = 0 /\ skipped' = 0
    /\ uFailed' = 0 /\ entryIdx' = 0 /\ uOutcome' = <<>>
    /\ UNCHANGED <<crawlVars, normVars, classVars, prepVars, downloadVars, r2File,
                   uRuns>>

NextXfer ==
    \/ StartDownload
    \/ PathExists \/ Response200 \/ ResponseRejected \/ FileFinish \/ FileError
    \/ BatchEnd \/ FinalSave \/ Interrupt
    \/ StartUpload \/ UploadSkip \/ UploadMissing \/ UploadPut \/ UploadFinish
    \/ InterruptUpload

SpecXfer == (InitDownload \/ InitUpload) /\ [][NextXfer]_vars

(***************************************************************************)
(* Properties of the crawl                                                 *)
(***************************************************************************)
NoRepeats(seq) == \A i, j \in 1..Len(seq) : i # j => seq[i] # seq[j]
PushedUrls == [i \in 1..Len(enqLog) |-> enqLog[i].url]
TimesPushed(u) == Cardinality({i \in 1..Len(enqLog) : enqLog[i].url = u})
NormalizedLinks(links) == {normalizeUrl(l) : l \in Range(links)} \ {NULL}
\* the URLs setup() loaded into visited; the file is rewritten when pc = "done"
PriorSitemap ==
    IF RESUME /\ sitemapFile.exists THEN Range(sitemapFile.content) ELSE {}
InLoopBody == pc \in {"scrape", "save", "delay"}

\* C1: no URL is pushed on the queue more than once in a run, whichever loop
\* discovers it; the queue never holds a URL twice, and every URL in it or
\* dequeued from it was pushed exactly once.
C1_EnqueuedAtMostOnce ==
    /\ NoRepeats(PushedUrls)
    /\ NoRepeats(queue)
    /\ \A u \in Range(queue) \cup Range(fetchLog) : TimesPushed(u) = 1

\* C1 witness: a fetched page links back to a URL that was dequeued before,
\* and to one URL twice
C1_Witness ==
    /\ pc = "delay" /\ result.ok
    /\ \E l \in Range(result.links) : normalizeUrl(l) \in Range(fetchLog)
    /\ \E i, j \in 1..Len(result.links) :
         i # j /\ normalizeUrl(result.links[i]) = normalizeUrl(result.links[j])
               /\ normalizeUrl(result.links[i]) \in Range(queue)

\* C2: a dequeued URL is in visited when scrapePage is called on it, and
\* scrapePage is called on no URL twice.
C2_VisitedBeforeFetchOnce ==
    /\ pc = "scrape" => url \in visited
    /\ Range(fetchLog) \subseteq visited
    /\ NoRepeats(fetchLog)

C2_Witness == pc = "scrape" /\ Len(fetchLog) = 2 /\ url \notin Range(fetchLog)

\* C3: every URL pushed on the queue is, at the moment of the push, neither
\* in the queue nor in visited, in all four enqueue loops.
C3_PushedOnlyIfUnseen ==
    \A i \in 1..Len(enqLog) : ~enqLog[i].inVisited /\ ~enqLog[i].inQueue

\* C4: in a resumed run no URL of the site-map it started from is handed to
\* scrapePage, and every link of a fetched page that normalizes to a URL
\* outside that site-map has been pushed on the queue exactly once.
C4_ResumeSkipsSitemap ==
    (RESUME /\ pc \notin {"setup", "done"}) =>
        /\ Range(fetchLog) \cap PriorSitemap = {}
        /\ (pc = "delay" /\ result.ok) =>
               \A n \in NormalizedLinks(dom.links) \ PriorSitemap : TimesPushed(n) = 1

\* C4 witness: a page fetched in a resumed run links to a URL of the prior
\* site-map and to one outside it, which waits in the queue
C4_Witness ==
    /\ RESUME /\ PriorSitemap # {}
    /\ pc = "delay" /\ result.ok
    /\ NormalizedLinks(dom.links) \cap PriorSitemap # {}
    /\ (NormalizedLinks(dom.links) \ PriorSitemap) \cap Range(queue) # {}

\* C5: a dequeued URL gets a blob, a site-map entry and its links offered to
\* the queue exactly when its response is "ok"; otherwise (status >= 400, no
\* response, an exception) the store, the site-map, the queue and the image
\* set stay as they were, and the loop goes on to the rate limit and the next
\* iteration.
C5_HarvestIffOk ==
    [][ /\ (pc = "scrape" /\ pc' = "save") =>
            /\ result'.ok <=> response' = "ok"
            /\ allImages' = IF response' = "ok"
                            THEN allImages \cup Range(dom'.images) ELSE allImages
        /\ (pc = "save" /\ pc' = "delay") =>
            IF response = "ok"
            THEN /\ \E b \in store' : b.url = url
                 /\ allUrls' = Append(allUrls, [url |-> url, type |-> classifyPage(url)])
                 /\ NormalizedLinks(dom.links) \subseteq visited \cup seenInQueue'
                 /\ NormalizedLinks(dom.links) \ visited \subseteq
                        Range(queue') \cup Range(fetchLog)
            ELSE UNCHANGED <<store, allUrls, queue, seenInQueue, enqLog, allImages>>
        /\ pc = "save" => pc' = "delay"
        /\ pc = "delay" => pc' = "crawl"
        /\ (pc = "crawl" /\ pc' = "crawl") =>
            UNCHANGED <<store, allUrls, seenInQueue, enqLog, allImages>>
      ]_vars

\* C5 witness: after a page was saved, a URL answered with status >= 400 and
\* a document full of links, and the loop has dequeued the next URL
C5_Witness ==
    /\ pc = "scrape" /\ url \notin Range(fetchLog)
    /\ response = "http-error" /\ dom.links # <<>> /\ dom.images # <<>>
    /\ allUrls # <<>>

\* C6 as stated: the loop body runs only while fewer than MAX_PAGES URLs are
\* in visited, and the loop ends with the queue empty or MAX_PAGES URLs in
\* visited.
C6_StopsAtVisitedBudget ==
    /\ InLoopBody => Cardinality(visited) <= MAX_PAGES
    /\ pc = "done" => (queue = <<>> \/ Cardinality(visited) >= MAX_PAGES)

\* C6 amended: the budget counts the URLs dequeued for fetching in this run
\* (count), not the visited set: the loop body runs only while count was below
\* MAX_PAGES, it ends with the queue empty or count = MAX_PAGES, and visited
\* holds count URLs more than the site-map the run resumed from.
C6_StopsAtCountBudget ==
    /\ InLoopBody => (count >= 1 /\ count <= MAX_PAGES)
    /\ pc = "crawl" => count <= MAX_PAGES
    /\ pc = "done" => (queue = <<>> \/ count = MAX_PAGES)
    /\ (pc \in {"crawl", "done"} \/ InLoopBody) =>
           /\ count = IF pc = "scrape" THEN Len(fetchLog) + 1 ELSE Len(fetchLog)
           /\ ~RESUME => Cardinality(visited) = count
           /\ pc # "done" => Cardinality(visited) = count + Cardinality(PriorSitemap)

\* C6 witness: a resumed run ends on the budget with more than MAX_PAGES URLs
\* in visited and URLs left in the queue
C6_Witness ==
    /\ pc = "done" /\ RESUME /\ count = MAX_PAGES
    /\ Cardinality(visited) > MAX_PAGES /\ queue # <<>>

\* C7: URLs are handed to scrapePage in the order they were pushed on the
\* queue.
PushIndex(u) == CHOOSE k \in 1..Len(enqLog) : enqLog[k].url = u
C7_FetchedInPushOrder ==
    /\ Range(fetchLog) \subseteq Range(PushedUrls)
    /\ \A i, j \in 1..Len(fetchLog) :
         i < j => PushIndex(fetchLog[i]) < PushIndex(fetchLog[j])

\* C7 witness: a fresh run has fetched both seeds and then a URL it
\* discovered on the way
C7_Witness ==
    /\ ~RESUME /\ Len(fetchLog) = 3
    /\ PushIndex(fetchLog[3]) > Len(seedUrls)
    /\ queue # <<>>

\* C8: when the control for page N (2 <= N <= 20) is absent, the total logged
\* is N - 1, the number of listing pages harvested, and the run goes on to the
\* next section or to the crawl.
C8_ReportsHarvestedPages ==
    pc = "reported" =>
        /\ pageNum \in 2..PAGE_LIMIT
        /\ found = pageNum - 1
        /\ found = harvested
        /\ ENABLED EndSection

\* C8 witness: the control for page 20 is absent in the second section
C8_Witness == pc = "reported" /\ pageNum = PAGE_LIMIT /\ found = PAGE_LIMIT - 1 /\ sec = 2

(***************************************************************************)
(* Properties of normalizeUrl                                              *)
(***************************************************************************)
\* C9: normalizing a URL that normalizeUrl returned gives the same URL.
C9_NormalizeIdempotent == nPc = "twice" => nOut2 = nOut

\* the href with the query q in place of its own
WithQuery(href, q) == BeforeQuery(href) \o q \o HashPart(href)

\* C10: the URL returned for an href with a query string carries that query
\* string, and hrefs that differ in the query string only get different URLs.
C10_QueryPreserved ==
    (nPc = "once" /\ nOut # NULL /\ QueryPart(nHref) # <<>>) =>
        /\ ParseURL(nOut).search = QueryPart(nHref)
        /\ \A q \in NormQueries \ {QueryPart(nHref)} :
               normalizeUrl(WithQuery(nHref, q)) # nOut

\* C11: an href that does not parse, whose host is neither www.thcf.org nor
\* thcf.org, or whose path ends in a denylisted extension (in either case,
\* alone or followed by one trailing slash) is normalized to null, and the
\* link loop pushes nothing on the queue for it.
Unparsable(href) == ~ParseURL(href).ok
ForeignHost(href) ==
    ParseURL(href).ok /\ ParseURL(href).hostname \notin {"www.thcf.org", "thcf.org"}
EndsInDeniedExt(path) ==
    \/ Len(path) >= 1 /\ path[Len(path)] \in DenyExt
    \/ Len(path) >= 2 /\ path[Len(path)] = "/" /\ path[Len(path) - 1] \in DenyExt
DeniedFile(href) == ParseURL(href).ok /\ EndsInDeniedExt(ParseURL(href).pathname)
Rejected(href) == Unparsable(href) \/ ForeignHost(href) \/ DeniedFile(href)

ClassPath == OrElse(StripTrailingSlash(ParseURL(cUrl).pathname), <<"/">>)
PathIs(path) == cUrl \in {<<o>> \o path \o s : o \in {WWW, APEX}, s \in {<<>>, <<"/">>}}

\* C12: the type returned is that of the first rule of PATTERNS, in the
\* declared order, that matches the path without its trailing slash, and
\* 'page' when no rule matches; /news/my-article is 'news', /about/news is
\* 'news-listing', /students/scholarships/scholarship-directory is
\* 'scholarship-listing'.
C12_FirstMatchWins ==
    cPc \in {"classified", "partitioned"} =>
        /\ \/ \E i \in 1..Len(PATTERNS) :
                  /\ Matches(PATTERNS[i], ClassPath)
                  /\ \A j \in 1..(i - 1) : ~Matches(PATTERNS[j], ClassPath)
                  /\ cType = PATTERNS[i].type
           \/ /\ \A i \in 1..Len(PATTERNS) : ~Matches(PATTERNS[i], ClassPath)
              /\ cType = "page"
        /\ PathIs(<<"/", "news", "/", "my-article">>) => cType = "news"
        /\ PathIs(<<"/", "about", "/", "news">>) => cType = "news-listing"
        /\ PathIs(<<"/", "students", "/", "scholarships", "/",
                    "scholarship-directory">>) => cType = "scholarship-listing"

\* C12 witness: the scholarship directory, which rules 4, 5 and 6 match, was
\* classified
C12_Witness ==
    /\ cPc = "classified"
    /\ cUrl = <<WWW, "/", "students", "/", "scholarships", "/", "scholarship-directory", "/">>
    /\ Cardinality({i \in 1..Len(PATTERNS) : Matches(PATTERNS[i], ClassPath)}) = 3
    /\ cType = "scholarship-listing"

(***************************************************************************)
(* Properties of the cleaners, the field parser and the merge              *)
(***************************************************************************)
Processed == pPc \in {"emitted", "raised", "recleaned"}
Emitted == pKind = "scholarships" /\ Processed /\ ~pRecord.raised
NoMainContent(body) == body = <<>> \/ Select(Load(body), MainContent) = <<>>

\* C13: each cleaner, run on the body it returned, returns that body again.
C13_CleaningIsProjection == pPc = "recleaned" => pOut2 = pOut

\* C14: for the body <p>Intro text.<br><br><strong>Eligibility:</strong></p>
\* <ul><li>GPA 3.0</li><li>Resident</li></ul><p><strong>Amount:</strong>
\* $1,000</p><p><strong>Deadline:</strong> March 1</p> the parser returns a
\* description containing "Intro text.", the eligibility list GPA 3.0,
\* Resident, the amount $1,000 and the deadline March 1.
ExampleValues(parsed) ==
    /\ "Intro text." \in Range(TextOf(Prop(parsed, "description")))
    /\ Prop(parsed, "eligibility") = << <<"GPA 3.0">>, <<"Resident">> >>
    /\ Prop(parsed, "amount") = <<"$1,000">>
    /\ Prop(parsed, "deadline") = <<"March 1">>

C14_ExampleRecovered ==
    (pKind = "scholarships" /\ Processed /\ pBody = ExampleContent) =>
        ExampleValues(pParsed)

\* C14 witness: the same markup inside a main-content section, between a
\* banner and a side navigation, was parsed to the values of the example
C14_Witness ==
    /\ pKind = "scholarships" /\ Processed
    /\ pBody = <<Banner, Elem("section", "main-content", ExampleContent), SideNav>>
    /\ ExampleValues(pParsed)
    /\ pParsed.description = <<Elem("p", "", <<Text(<<"Intro text.">>), Br>>)>>

\* C15: for every raw scholarship record the callback returns a record and
\* throws nothing, and for a body that is empty or has no main-content
\* section the parser returns the record of defaults.
C15_DefaultsNeverThrows ==
    (pKind = "scholarships" /\ Processed) =>
        /\ ~pRecord.raised
        /\ NoMainContent(pBody) => pParsed = Defaults

\* C16: in an emitted record isRenewable is true exactly when details begins
\* with "yes" in any case; the paragraph "Renewable: Yes, up to 3 years."
\* gives true with details "Yes, up to 3 years.", the paragraph
\* "Renewable: No." gives false.
BeginsWithYes(text) == text # <<>> /\ Head(text) \in {"yes", "Yes", "YES"}
HasParagraph(body, para) == para \in Range(FindAll(body, Sel("p", {})))

C16_RenewableIffYes ==
    Emitted =>
        /\ pRecord.renewable.isRenewable <=> BeginsWithYes(pRecord.renewable.details)
        /\ HasParagraph(pBody, Labelled("Renewable:",
                                        <<Text(<<" ", "Yes", ", up to 3 years.">>)>>)) =>
               pRecord.renewable =
                   [isRenewable |-> TRUE, details |-> <<"Yes", ", up to 3 years.">>]
        /\ HasParagraph(pBody, Labelled("Renewable:", <<Text(<<" ", "No.">>)>>)) =>
               pRecord.renewable = [isRenewable |-> FALSE, details |-> <<"No.">>]

\* C16 witness: the parser found no renewable text and the raw field, with a
\* leaked label at its end, gave a renewable record
C16_Witness ==
    /\ Emitted
    /\ pParsed.renewable.details = <<>>
    /\ pFields.renewable = <<"yes", ", annually", " ", "Deadline:">>
    /\ pRecord.renewable = [isRenewable |-> TRUE, details |-> <<"yes", ", annually">>]

\* C17: for each slot, a value the parser found is the value emitted, whatever
\* the raw fields are, and the emitted value differs from the parser's only
\* when the parser found nothing and the raw field is there.
Slots == {"eligibility", "amount", "renewable", "deadline", "requirements"}
ParserFound(parsed, slot) ==
    IF slot = "renewable" THEN parsed.renewable.details # <<>> ELSE parsed[slot] # <<>>

C17_ParserValueWins ==
    Emitted =>
        \A slot \in Slots :
            /\ ParserFound(pParsed, slot) =>
                   /\ pRecord[slot] = pParsed[slot]
                   /\ \A f \in FieldBags :
                          ScholarshipRecord(pParsed, pOut, f)[slot] = pParsed[slot]
            /\ pRecord[slot] # pParsed[slot] =>
                   ~ParserFound(pParsed, slot) /\ pFields[slot] # <<>>

\* C17 witness: the parser found an amount and no deadline, the raw fields
\* have another amount and a deadline
C17_Witness ==
    /\ Emitted
    /\ pParsed.amount = <<"$1,000">> /\ pFields.amount = <<"$500">>
    /\ pRecord.amount = <<"$1,000">>
    /\ pParsed.deadline = <<>> /\ pRecord.deadline = <<"April 15">>

(***************************************************************************)
(* Properties of the persisted records and of the rate limit               *)
(***************************************************************************)
\* the file a record of the site map was written to
BlobKey(entry) == <<getOutputDir(entry.type), slugFromUrl(entry.url)>>

\* C18: two different URLs persisted in a run are written to different
\* (directory, slug) files, so every record persisted in the run is still in
\* the file it was written to.
C18_BlobsNeverOverwritten ==
    /\ \A i, j \in 1..Len(allUrls) :
           allUrls[i].url # allUrls[j].url => BlobKey(allUrls[i]) # BlobKey(allUrls[j])
    /\ \A i \in 1..Len(allUrls) : \E b \in store : b.url = allUrls[i].url
    /\ Cardinality(store) = Len(allUrls)

\* C19: DELAY_MS of waiting lie between any two consecutive calls of
\* scrapePage, whatever the earlier call returned.
C19_DelayBetweenFetches ==
    \A i \in 1..(Len(fetchAt) - 1) : fetchAt[i + 1] - fetchAt[i] >= DELAY_MS

\* C19 witness: the second fetch threw, the delay was taken, and the third
\* URL has been dequeued for fetching
C19_Witness ==
    /\ pc = "scrape" /\ Len(fetchAt) = 2
    /\ response = "goto-throws"
    /\ waited - fetchAt[2] = DELAY_MS

\* C20: for a body without a main-content section the news cleaner and the
\* scholarship cleaner return the empty string, and the page cleaner returns
\* what is left of the whole document.
C20_EmptyWithoutMainContent ==
    (Processed /\ NoMainContent(pBody)) =>
        /\ pKind \in {"news", "scholarships"} => pOut = <<>>
        /\ (pKind = "pages" /\ pBody # <<>>) =>
               pOut = TrimHtml(RootHtml(RemoveAll(Load(pBody), PageChrome)))

(***************************************************************************)
(* Properties of the field parser                                          *)
(***************************************************************************)
\* the element children of the main content of a body that has one
ContentOf(body) == Elements(Load(InnerHtml(Select(Load(body), MainContent))).body)
HasFields == pKind = "scholarships" /\ Processed /\ "amount" \in DOMAIN pParsed
EndsWithLabel(text) == text # <<>> /\ IsLabel(Last(text), LabelNames)

\* C21: no amount, renewable.details or deadline the parser returns ends with
\* a field label (Eligibility, Amount, Renewable, Deadline, Requirements,
\* Apply), with or without a colon.
C21_NoTrailingLabel ==
    HasFields =>
        /\ ~EndsWithLabel(pParsed.amount)
        /\ ~EndsWithLabel(pParsed.renewable.details)
        /\ ~EndsWithLabel(pParsed.deadline)

\* C21 witness: the paragraph "renewable: YES Deadline:" was parsed and the
\* label at its end is gone
C21_Witness ==
    /\ HasFields
    /\ HasParagraph(pBody, Labelled("renewable:",
                                    <<Text(<<" ", "YES", " ", "Deadline:">>)>>))
    /\ pParsed.renewable.details = <<"YES">>

\* the position among the children of el of the first strong element that
\* is a field label, 0 if there is none
LabelKid(el) ==
    IF \A i \in 1..Len(el.kids) :
           ~(el.kids[i].tag = "strong" /\ LabelOf(TextOf(el.kids[i].kids)) # "")
    THEN 0
    ELSE CHOOSE i \in 1..Len(el.kids) :
             /\ el.kids[i].tag = "strong" /\ LabelOf(TextOf(el.kids[i].kids)) # ""
             /\ \A j \in 1..(i - 1) :
                    ~(el.kids[j].tag = "strong" /\ LabelOf(TextOf(el.kids[j].kids)) # "")
ProseBefore(el) ==
    IF LabelKid(el) = 0 THEN <<>>
    ELSE Trim(TextOf(SubSeq(el.kids, 1, LabelKid(el) - 1)))

\* C22: when the first child of the main content that has a field label has
\* prose before the label, the description ends with that prose, and no
\* child after that one is in the description.
C22_PrefixKept ==
    (HasFields /\ TriggerIndex(ContentOf(pBody)) # 0) =>
        \A E \in {ContentOf(pBody)} : \A k \in {TriggerIndex(E)} :
            /\ ProseBefore(E[k]) # <<>> =>
                   /\ pParsed.description # <<>>
                   /\ Trim(TextOf(<<Last(pParsed.description)>>)) = ProseBefore(E[k])
            /\ \A j \in (k + 1)..Len(E) : E[j] \notin Range(pParsed.description)

\* C22 witness: prose before an Eligibility label, with an amount after it
C22_Witness ==
    /\ HasFields
    /\ ContentOf(pBody) =
           << Elem("p", "", <<Text(<<"Intro text.">>), Br, Br,
                              Elem("strong", "", <<Text(<<"Eligibility:">>)>>)>>),
              EligibilityList,
              Labelled("Amount:", <<>>), Para(<<"$1,000">>) >>
    /\ pParsed.description = <<Elem("p", "", <<Text(<<"Intro text.">>), Br>>)>>
    /\ pParsed.amount = <<"$1,000">>

\* the paragraphs that begin with the label name, and what follows the label
LabelParas(E, name) ==
    {i \in 1..Len(E) : /\ E[i].tag = "p" /\ E[i].kids # <<>>
                       /\ Head(E[i].kids).tag = "strong"
                       /\ LabelOf(TextOf(Head(E[i].kids).kids)) = name}
OwnText(E, i) == Trim(TextOf(Tail(E[i].kids)))
Usable(text) == text # <<>> /\ ~IsLabel(Head(text), LabelNames)
FieldText(parsed, name) ==
    IF name = "renewable" THEN parsed.renewable.details ELSE parsed[name]

\* C23: for Amount, Renewable and Deadline, a label's paragraph with usable
\* text of its own gives the field from that text, and when it has none and
\* the next paragraph begins with another field label and a colon the field
\* is empty.
C23_GuardedFallback ==
    HasFields =>
        \A E \in {ContentOf(pBody)} : \A name \in {"amount", "renewable", "deadline"} :
            \A i \in LabelParas(E, name) : \A j \in {NextOf(E, i, {"p"})} :
                /\ Usable(OwnText(E, i)) =>
                       /\ FieldText(pParsed, name) # <<>>
                       /\ Head(FieldText(pParsed, name)) = Head(OwnText(E, i))
                /\ ( /\ OwnText(E, i) = <<>> /\ j # 0
                     /\ BeginsWithLabel(Trim(TextOf(E[j].kids)), LabelNames \ {name}) ) =>
                       FieldText(pParsed, name) = <<>>

\* C23 witness: an Amount label alone in its paragraph, a Deadline paragraph
\* after it
C23_Witness ==
    /\ HasFields
    /\ ContentOf(pBody) = << Labelled("Amount:", <<>>),
                             Labelled("Deadline:", <<Text(<<" ", "March 1">>)>>) >>
    /\ pParsed.amount = <<>>
    /\ pParsed.deadline = <<"March 1">>

(***************************************************************************)
(* Properties of the site-map across runs                                  *)
(***************************************************************************)
\* C27: the site-map a resumed run writes at its end has every URL of the
\* site-map the run resumed from.
C27_SitemapKeepsPriorUrls ==
    [][(RESUME /\ pc = "crawl" /\ pc' = "done") =>
           PriorSitemap \subseteq Range(sitemapFile'.content)]_vars

(***************************************************************************)
(* Properties of the image downloader and of the uploader                  *)
(***************************************************************************)
\* C24: whenever and however often the downloader is stopped and run again,
\* no image URL is downloaded to the end twice, so none has two local files.
C24_DownloadedOnce ==
    \A a, b \in 1..Len(downloads) : a # b => downloads[a].url # downloads[b].url

Count(f, v) == Cardinality({x \in DOMAIN f : f[x] = v})
Saved(file) == IF file.exists THEN file.content ELSE <<>>

C26_MapInjective ==
    \A a, b \in 1..Len(imageMap) : a # b => imageMap[a].path # imageMap[b].path

====
